---- MODULE Spec2Model ----
(***************************************************************************)
(* A model of the Right-to-Work extraction pipeline (rtw_extract.py) and   *)
(* of the form-filling runner (rtw_runner.py), with the /rtw/run handler   *)
(* of app.py that starts the runner.  Spec is the extraction, SpecText the *)
(* two text matchers on their own, SpecRun the runner and SpecApp the      *)
(* handler.                                                                *)
(*                                                                         *)
(* Python strings are sequences of one-character strings.  Confidences are *)
(* integers in percent (0.95 is 95).  The regex engine, the PDF libraries, *)
(* the date parser, the remote vision model and the browser are the        *)
(* environment: a document text is given by the matches the regexes find   *)
(* in it, a model response by the JSON fields it carries, a browser        *)
(* operation by whether it returns or raises.                              *)
(***************************************************************************)
EXTENDS Integers, Sequences, FiniteSets, TLC

VARIABLES ex, rn, rq, tx, GEMINI_CLIENT, od

vars == <<ex, rn, rq, tx, GEMINI_CLIENT, od>>

\* no output directory is in use
NoDir == [now |-> [sec |-> 0, half |-> 0], runs |-> <<>>, files |-> {}]

(***************************************************************************)
(* Python values                                                           *)
(***************************************************************************)

\* Python's None where a string is expected: no string of characters equals it.
NoneStr == <<"None">>

\* Python's None where an int is expected (no date part is ever negative).
NoneInt == -1

TruthyStr(s) == s # NoneStr /\ s # <<>>

TruthyInt(n) == n # NoneInt /\ n # 0

UpperLetters == <<"A","B","C","D","E","F","G","H","I","J","K","L","M",
                  "N","O","P","Q","R","S","T","U","V","W","X","Y","Z">>

LowerLetters == <<"a","b","c","d","e","f","g","h","i","j","k","l","m",
                  "n","o","p","q","r","s","t","u","v","w","x","y","z">>

Digits == <<"0","1","2","3","4","5","6","7","8","9">>

Range(f) == {f[i] : i \in DOMAIN f}

\* str.upper() on one character.
UpperChar(c) ==
    IF \E i \in DOMAIN LowerLetters : LowerLetters[i] = c
    THEN UpperLetters[CHOOSE i \in DOMAIN LowerLetters : LowerLetters[i] = c]
    ELSE c

\* str.upper()
Upper(s) == [i \in DOMAIN s |-> UpperChar(s[i])]

\* the character class [A-Z0-9]
AlnumUpper == Range(UpperLetters) \cup Range(Digits)

\* re.sub(r"[^A-Z0-9]", "", s)
RECURSIVE StripNonAlnum(_)
StripNonAlnum(s) ==
    IF s = <<>> THEN <<>>
    ELSE IF Head(s) \in AlnumUpper
         THEN <<Head(s)>> \o StripNonAlnum(Tail(s))
         ELSE StripNonAlnum(Tail(s))

SHARE_CODE_LEN == 9

\* mutant: the candidate is not upper-cased before it is stripped
normalize_share_code_noupper(candidate) ==
    IF ~TruthyStr(candidate) THEN NoneStr
    ELSE LET s == StripNonAlnum(candidate)
         IN  IF Len(s) # SHARE_CODE_LEN THEN NoneStr ELSE s

\* mutant: the length of the stripped candidate is not checked
normalize_share_code_nolen(candidate) ==
    IF ~TruthyStr(candidate) THEN NoneStr
    ELSE StripNonAlnum(Upper(candidate))

normalize_share_code(candidate) ==
    IF ~TruthyStr(candidate) THEN NoneStr
    ELSE LET s == StripNonAlnum(Upper(candidate))
         IN  IF Len(s) # SHARE_CODE_LEN THEN NoneStr
             ELSE IF \E i \in DOMAIN s : s[i] \notin AlnumUpper THEN NoneStr
             ELSE s

\* normalize_share_code(raw9) or raw9
OrElse(a, b) == IF TruthyStr(a) THEN a ELSE b

\* mutant: the last group loses its third character
format_share_code_spaced_short(raw9in) ==
    LET raw9 == OrElse(normalize_share_code(raw9in), raw9in)
    IN  IF ~TruthyStr(raw9) \/ Len(raw9) < SHARE_CODE_LEN
        THEN OrElse(raw9, <<>>)
        ELSE SubSeq(raw9, 1, 3) \o <<" ">> \o SubSeq(raw9, 4, 6)
             \o <<" ">> \o SubSeq(raw9, 7, 8)

format_share_code_spaced(raw9in) ==
    LET raw9 == OrElse(normalize_share_code(raw9in), raw9in)
    IN  IF ~TruthyStr(raw9) \/ Len(raw9) < SHARE_CODE_LEN
        THEN OrElse(raw9, <<>>)
        ELSE SubSeq(raw9, 1, 3) \o <<" ">> \o SubSeq(raw9, 4, 6)
             \o <<" ">> \o SubSeq(raw9, 7, 9)

\* f"{n:02d}" and f"{n:04d}": decimal digits, left-padded with zeros to width w
RECURSIVE DecDigits(_)
DecDigits(n) ==
    IF n < 10 THEN <<Digits[n + 1]>>
    ELSE DecDigits(n \div 10) \o <<Digits[(n % 10) + 1]>>

RECURSIVE PadLeft(_, _)
PadLeft(s, w) == IF Len(s) >= w THEN s ELSE PadLeft(<<"0">> \o s, w)

FmtInt(n, w) == PadLeft(DecDigits(n), w)

DigitVal(c) == (CHOOSE i \in DOMAIN Digits : Digits[i] = c) - 1

\* int(s) for a string of decimal digits
RECURSIVE IntOf(_)
IntOf(s) ==
    IF s = <<>> THEN 0
    ELSE 10 * IntOf(SubSeq(s, 1, Len(s) - 1)) + DigitVal(s[Len(s)])

\* s is a string of decimal digits
IsNumber(s) == s # <<>> /\ \A k \in DOMAIN s : s[k] \in Range(Digits)

\* s is a string of decimal digits whose value lies in lo..hi
InRange(s, lo, hi) == IsNumber(s) /\ IntOf(s) >= lo /\ IntOf(s) <= hi

(***************************************************************************)
(* Pattern matchers (rtw_extract.py)                                       *)
(*                                                                         *)
(* A share-code text is [label, cands, runs]: the index of "SHARE CODE"    *)
(* (-1 when str.find does not find it), the SHARECODE_RE matches and the   *)
(* matches of the bare 9-character pattern, each [raw, pos] in text order. *)
(* A DOB text is [occ, dot, slash, word]: for each date label the indices  *)
(* at which it occurs, and the matches of DOB_DOT_RE, DOB_SLASH_RE and     *)
(* DOB_WORD_RE in text order, each with its groups and its start.          *)
(***************************************************************************)

\* The month table, keyed by the upper-cased name.  The accented French
\* spellings of the source map to the same numbers as the unaccented ones
\* listed here and are left out.
MONTH_MAP ==
    [n \in {"JAN", "JANUARY", "JANVIER"} |-> 1] @@
    [n \in {"FEB", "FEBRUARY", "FEV", "FEVRIER"} |-> 2] @@
    [n \in {"MAR", "MARCH", "MARS"} |-> 3] @@
    [n \in {"APR", "APRIL", "AVR", "AVRIL"} |-> 4] @@
    [n \in {"MAY", "MAI"} |-> 5] @@
    [n \in {"JUN", "JUNE", "JUIN"} |-> 6] @@
    [n \in {"JUL", "JULY", "JUIL", "JUILLET"} |-> 7] @@
    [n \in {"AUG", "AUGUST", "AOUT"} |-> 8] @@
    [n \in {"SEP", "SEPT", "SEPTEMBER", "SEPTEMBRE"} |-> 9] @@
    [n \in {"OCT", "OCTOBER", "OCTOBRE"} |-> 10] @@
    [n \in {"NOV", "NOVEMBER", "NOVEMBRE"} |-> 11] @@
    [n \in {"DEC", "DECEMBER", "DECEMBRE"} |-> 12]

\* MONTH_MAP.get(mon_raw): None for a word that is no month name
MonthOf(mon_raw) ==
    IF mon_raw \in DOMAIN MONTH_MAP THEN MONTH_MAP[mon_raw] ELSE NoneInt

\* mutant: the current year itself is taken for the 1900s
normalize_year_2digit_ge(y, yy) ==
    IF y < 100
    THEN IF y >= yy THEN 1900 + y ELSE 2000 + y
    ELSE y

\* app.py's _two_digit_year_to_four; cur is now.year % 100
_two_digit_year_to_four(yy, cur) ==
    IF yy > cur THEN 1900 + yy ELSE 2000 + yy

\* yy is int(datetime.utcnow().strftime("%y"))
normalize_year_2digit(y, yy) ==
    IF y < 100
    THEN IF y > yy THEN 1900 + y ELSE 2000 + y
    ELSE y

Abs(n) == IF n < 0 THEN -n ELSE n

\* the keywords of the label loop of parse_dob_from_text
LabelKeywords == <<"DATE OF BIRTH", "DATE DE NAISSANCE", "DOB">>

\* a text in which no date label occurs
NoLabels == [kw \in Range(LabelKeywords) |-> {}]

MinOf(S) == CHOOSE x \in S : \A z \in S : x <= z

\* label_positions: t.find(kw) is the index of the first occurrence of kw
label_positions(occ) ==
    {MinOf(occ[kw]) : kw \in {k \in DOMAIN occ : occ[k] # {}}}

\* score_pos of parse_dob_from_text
score_pos(labels, pos) ==
    IF labels = {} THEN 50
    ELSE LET d == MinOf({Abs(pos - lp) : lp \in labels})
         IN  IF d < 80 THEN 95
             ELSE IF d < 200 THEN 85
             ELSE 65

NoDob == [d |-> NoneInt, m |-> NoneInt, y |-> NoneInt, conf |-> 0,
          reason |-> <<"no_match">>]

\* one pass of "for m in DOB_DOT_RE.finditer(t)" (or DOB_SLASH_RE) over ms
RECURSIVE NumericLoop(_, _, _, _)
NumericLoop(ms, labels, tag, best) ==
    IF ms = <<>> THEN best
    ELSE LET mt   == Head(ms)
             conf == score_pos(labels, mt.pos)
             nb   == IF 1 <= mt.d /\ mt.d <= 31 /\ 1 <= mt.mo /\ mt.mo <= 12
                        /\ conf > best.conf
                     THEN [d |-> mt.d, m |-> mt.mo, y |-> mt.y, conf |-> conf,
                           reason |-> <<tag>>]
                     ELSE best
         IN  NumericLoop(Tail(ms), labels, tag, nb)

\* "for m in DOB_WORD_RE.finditer(t)"
RECURSIVE WordLoop(_, _, _, _)
WordLoop(ms, labels, yy, best) ==
    IF ms = <<>> THEN best
    ELSE LET mt   == Head(ms)
             mon  == MonthOf(mt.mon)
             conf == score_pos(labels, mt.pos)
             nb   == IF TruthyInt(mon) /\ 1 <= mt.d /\ mt.d <= 31
                        /\ conf > best.conf
                     THEN [d |-> mt.d, m |-> mon,
                           y |-> normalize_year_2digit(mt.y, yy),
                           conf |-> conf,
                           reason |-> <<"word_month", mt.mon>>]
                     ELSE best
         IN  WordLoop(Tail(ms), labels, yy, nb)

YEAR_MIN == 1900

YEAR_MAX == 2100

parse_dob_from_text(t, yy) ==
    LET labels == label_positions(t.occ)
        b1 == NumericLoop(t.dot, labels, "dot_date", NoDob)
        b2 == NumericLoop(t.slash, labels, "slash_date", b1)
        best == WordLoop(t.word, labels, yy, b2)
    IN  IF TruthyInt(best.d) /\ TruthyInt(best.y)
           /\ (best.y < YEAR_MIN \/ best.y > YEAR_MAX)
        THEN [d |-> NoneInt, m |-> NoneInt, y |-> NoneInt, conf |-> 0,
              reason |-> <<"year_out_of_range">>]
        ELSE best

\* candidates.append((raw, m.start())) for every match that normalizes
RECURSIVE Candidates(_)
Candidates(ms) ==
    IF ms = <<>> THEN <<>>
    ELSE LET raw == normalize_share_code(Upper(Head(ms).raw))
         IN  (IF TruthyStr(raw) THEN <<[raw |-> raw, pos |-> Head(ms).pos]>>
              ELSE <<>>) \o Candidates(Tail(ms))

\* mutant: of two candidates of equal confidence the later one is kept
RECURSIVE ShareLoop_last_wins(_, _, _)
ShareLoop_last_wins(cs, label_idx, best) ==
    IF cs = <<>> THEN best
    ELSE LET d    == Abs(Head(cs).pos - label_idx)
             conf == IF label_idx # -1
                     THEN IF d < 80 THEN 95 ELSE IF d < 200 THEN 85 ELSE 75
                     ELSE 75
             nb   == IF conf >= best.conf
                     THEN [raw |-> Head(cs).raw, conf |-> conf,
                           reason |-> <<"near_share_code_label">>]
                     ELSE best
         IN  ShareLoop_last_wins(Tail(cs), label_idx, nb)

\* "for raw, pos in candidates" of extract_share_code_from_text
RECURSIVE ShareLoop(_, _, _)
ShareLoop(cs, label_idx, best) ==
    IF cs = <<>> THEN best
    ELSE LET d    == Abs(Head(cs).pos - label_idx)
             conf == IF label_idx # -1
                     THEN IF d < 80 THEN 95 ELSE IF d < 200 THEN 85 ELSE 75
                     ELSE 75
             nb   == IF conf > best.conf
                     THEN [raw |-> Head(cs).raw, conf |-> conf,
                           reason |-> <<"near_share_code_label">>]
                     ELSE best
         IN  ShareLoop(Tail(cs), label_idx, nb)

extract_share_code_from_text(t) ==
    LET c1 == Candidates(t.cands)
        candidates == IF c1 = <<>> THEN Candidates(t.runs) ELSE c1
    IN  IF candidates = <<>>
        THEN [raw |-> NoneStr, conf |-> 0, reason |-> <<"no_sharecode_match">>]
        ELSE ShareLoop(candidates, t.label,
                       [raw |-> NoneStr, conf |-> 60,
                        reason |-> <<"sharecode_match">>])

\* what dateutil's parse gives for a string: no date (None, or it raised), or a
\* datetime [day, month, year]
NoDate == [day |-> 0, month |-> 0, year |-> 0]

NoDobStrings == [dd |-> <<>>, mm |-> <<>>, yyyy |-> <<>>]

\* parse_dob_string; date_str is [empty, dt]: whether the stripped string is
\* empty, and what dateparser.parse(s, dayfirst=True, fuzzy=True) gives for it
parse_dob_string(date_str) ==
    IF date_str.empty THEN NoDobStrings
    ELSE IF date_str.dt = NoDate THEN NoDobStrings
    ELSE LET y0 == date_str.dt.year
             y  == IF y0 < 100
                   THEN IF y0 <= 30 THEN 2000 + y0 ELSE 1900 + y0
                   ELSE y0
         IN  IF ~(YEAR_MIN <= y /\ y <= YEAR_MAX) THEN NoDobStrings
             ELSE [dd |-> FmtInt(date_str.dt.day, 2),
                   mm |-> FmtInt(date_str.dt.month, 2),
                   yyyy |-> FmtInt(y, 4)]

(***************************************************************************)
(* Documents and vision images (rtw_extract.py)                            *)
(*                                                                         *)
(* A document is [empty, pdf, layer, ext]: whether the byte buffer is      *)
(* empty, whether it starts with %PDF, the text pdfplumber reads from its  *)
(* first pages (the empty text when it cannot open it or finds no text)    *)
(* and the suffix of its file name.                                        *)
(***************************************************************************)

EmptyShareText == [label |-> -1, cands |-> <<>>, runs |-> <<>>]

EmptyDobText == [occ |-> NoLabels, dot |-> <<>>, slash |-> <<>>, word |-> <<>>]

_is_pdf_bytes(doc) == ~doc.empty /\ doc.pdf

\* "not pdf_bytes", failure to open and pages without text all give ""
extract_text_layer_from_pdf_bytes(doc, empty_text) ==
    IF doc.empty THEN empty_text ELSE doc.layer

\* the bands of pdf_bytes_to_vision_images, then the full page
PdfImageParts == <<"band_top", "band_middle", "band_bottom", "full">>

\* what rendering a PDF can do: four images, no image (not openable,
\* encrypted, no page), or an exception of load_page / get_pixmap that
\* pdf_bytes_to_vision_images does not catch
RenderOutcomes(doc) ==
    IF _is_pdf_bytes(doc) THEN {"images", "none", "raise"} ELSE {"na"}

MimeOf(ext) ==
    IF ext \in {".jpg", ".jpeg"} THEN "image/jpeg"
    ELSE IF ext = ".webp" THEN "image/webp"
    ELSE "image/png"

\* the (bytes, mime) list; which names the buffer the bytes come from
file_bytes_to_vision_images(doc, which, render) ==
    IF doc.empty THEN <<>>
    ELSE IF _is_pdf_bytes(doc)
         THEN IF render = "images"
              THEN [i \in DOMAIN PdfImageParts |->
                      [of |-> which, part |-> PdfImageParts[i],
                       mime |-> "image/png"]]
              ELSE <<>>
         ELSE <<[of |-> which, part |-> "file", mime |-> MimeOf(doc.ext)]>>

(***************************************************************************)
(* Vision fallback client (rtw_extract.py, gemini_vision_extract)          *)
(*                                                                         *)
(* The dict a model call gives is [empty, sc, dob, model]: sc is the       *)
(* string under "share_code_raw9" (empty when the key is missing), dob the *)
(* string under "dob" as parse_dob_string sees it.                         *)
(***************************************************************************)

GEMINI_MODEL_FAST == "gemini-2.0-flash-001"

GEMINI_MODEL_STRONG == "gemini-2.5-pro"

EmptyDateStr == [empty |-> TRUE, dt |-> NoDate]

\* data = {}
EmptyData == [empty |-> TRUE, sc |-> <<>>, dob |-> EmptyDateStr, model |-> ""]

\* _call: the parsed JSON object of the response, with data["_model"] set
_call(model_name, payload) ==
    [empty |-> FALSE, sc |-> payload.sc, dob |-> payload.dob,
     model |-> model_name]

\* mutant: only the share code is looked at
_missing_sc_only(d) ==
    IF d.empty THEN TRUE
    ELSE ~TruthyStr(normalize_share_code(d.sc))

_missing(d) ==
    IF d.empty THEN TRUE
    ELSE LET sc  == normalize_share_code(d.sc)
             dob == IF d.dob.empty THEN NoDobStrings
                    ELSE parse_dob_string(d.dob)
         IN  ~(TruthyStr(sc) /\ dob.dd # <<>> /\ dob.mm # <<>>
               /\ dob.yyyy # <<>>)

\* the dict gemini_vision_extract returns for the data it ended with
VisionResult(data) ==
    LET dob == IF data.dob.empty THEN NoDobStrings
               ELSE parse_dob_string(data.dob)
    IN  [share_code_raw9 |-> OrElse(normalize_share_code(data.sc), <<>>),
         dob_day |-> dob.dd, dob_month |-> dob.mm, dob_year |-> dob.yyyy,
         notes |-> <<"model=", data.model>>]

\* "if GEMINI_CLIENT is None: raise RuntimeError(...)"
ClientRaises(client) == client = "None"

(***************************************************************************)
(* Extraction orchestrator (rtw_extract.py, extract_rtw_fields)            *)
(*                                                                         *)
(* ex[i] holds the arguments and the locals of call i, its position pc,    *)
(* and a log of what it asked of the vision client: calls has one entry    *)
(* per invocation of gemini_vision_extract, requests one entry per model   *)
(* request made inside it.  e is the exception the handler of the vision   *)
(* block caught ("" while it caught none).                                 *)
(***************************************************************************)

DEFAULT_CONF_THRESHOLD == 80

AI_CONF_FLOOR == 90

NoResult == [ok |-> FALSE]

\* str(e) of the RuntimeError of line 353
CLIENT_ERROR == "Gemini client not available"

\* str(e) of an exception raised while rendering a PDF page to images
RENDER_ERROR == "page rendering failed"

NewCall(share_doc, dob_doc, thr, yy) ==
    [pc |-> "start",
     share_file |-> share_doc, dob_file |-> dob_doc,
     conf_threshold |-> thr, yy |-> yy,
     text_share |-> EmptyShareText, text_dob |-> EmptyDobText,
     sc_raw |-> NoneStr, sc_conf |-> 0, sc_reason |-> <<>>,
     d |-> NoneInt, m |-> NoneInt, y |-> NoneInt,
     dob_conf |-> 0, dob_reason |-> <<>>,
     need_ai |-> FALSE, ai_used |-> FALSE, ai_notes |-> <<>>, e |-> "",
     share_imgs |-> <<>>, dob_imgs |-> <<>>,
     calls |-> <<>>, requests |-> <<>>,
     data |-> EmptyData,
     result |-> NoResult]

\* lines 423-424
TextLayers(c) ==
    [c EXCEPT
       !.text_share = IF _is_pdf_bytes(c.share_file)
                      THEN extract_text_layer_from_pdf_bytes(c.share_file,
                                                             EmptyShareText)
                      ELSE EmptyShareText,
       !.text_dob = IF _is_pdf_bytes(c.dob_file)
                    THEN extract_text_layer_from_pdf_bytes(c.dob_file,
                                                           EmptyDobText)
                    ELSE EmptyDobText,
       !.pc = "texted"]

\* mutant: only the share code is compared with the threshold
NeedAi_share_only(sc_raw, sc_conf, d, m, y, dob_conf, thr) ==
    ~TruthyStr(sc_raw) \/ sc_conf < thr

\* lines 429-433
NeedAi(sc_raw, sc_conf, d, m, y, dob_conf, thr) ==
    \/ ~TruthyStr(sc_raw) \/ sc_conf < thr
    \/ ~(TruthyInt(d) /\ TruthyInt(m) /\ TruthyInt(y)) \/ dob_conf < thr

\* lines 426-438
Matchers(c) ==
    LET sc  == extract_share_code_from_text(c.text_share)
        dob == parse_dob_from_text(c.text_dob, c.yy)
        need == NeedAi(sc.raw, sc.conf, dob.d, dob.m, dob.y, dob.conf,
                       c.conf_threshold)
    IN  [c EXCEPT
           !.sc_raw = sc.raw, !.sc_conf = sc.conf, !.sc_reason = sc.reason,
           !.d = dob.d, !.m = dob.m, !.y = dob.y,
           !.dob_conf = dob.conf, !.dob_reason = dob.reason,
           !.need_ai = need,
           !.pc = IF need THEN "images" ELSE "emit"]

\* mutant: the handler throws the text-layer values away
ExceptHandler_clears(c, msg) ==
    [c EXCEPT !.e = msg, !.ai_used = FALSE,
              !.ai_notes = <<"AI fallback failed: ", msg>>,
              !.sc_raw = NoneStr, !.sc_conf = 0,
              !.d = NoneInt, !.m = NoneInt, !.y = NoneInt, !.dob_conf = 0,
              !.pc = "emit"]

\* mutant: the handler lets the exception leave extract_rtw_fields
ExceptHandler_reraises(c, msg) == [c EXCEPT !.e = msg, !.pc = "raised"]

\* lines 457-459
ExceptHandler(c, msg) ==
    [c EXCEPT !.e = msg, !.ai_used = FALSE,
              !.ai_notes = <<"AI fallback failed: ", msg>>,
              !.pc = "emit"]

\* lines 440-441; rs and rd are what rendering the two documents does
VisionImages(c, rs, rd) ==
    IF rs = "raise" \/ rd = "raise"
    THEN ExceptHandler(c, RENDER_ERROR)
    ELSE [c EXCEPT
            !.share_imgs = file_bytes_to_vision_images(c.share_file, "share", rs),
            !.dob_imgs = file_bytes_to_vision_images(c.dob_file, "dob", rd),
            !.pc = "vision"]

\* mutant: the share-code images are sent for both documents
VisionArgs_share_twice(c) ==
    [share_images |-> c.share_imgs, dob_images |-> c.share_imgs]

\* the arguments of gemini_vision_extract(share_imgs, dob_imgs), line 443
VisionArgs(c) ==
    [share_images |-> c.share_imgs, dob_images |-> c.dob_imgs]

\* line 443 and lines 352-353: the invocation, and its first statement
VisionEnter(c, client) ==
    LET c1 == [c EXCEPT !.calls = Append(@, VisionArgs(c))]
    IN  IF ClientRaises(client)
        THEN ExceptHandler(c1, CLIENT_ERROR)
        ELSE [c1 EXCEPT !.pc = "fast"]

\* lines 376-390; out tells whether the request raised, or else carries the
\* JSON object of the response
FastCall(c, out) ==
    LET data == IF out.raised THEN EmptyData
                ELSE _call(GEMINI_MODEL_FAST, out)
    IN  [c EXCEPT !.requests = Append(@, GEMINI_MODEL_FAST),
                  !.data = data,
                  !.pc = IF _missing(data) THEN "strong" ELSE "merge"]

\* lines 390-394
StrongCall(c, out) ==
    [c EXCEPT !.requests = Append(@, GEMINI_MODEL_STRONG),
              !.data = IF out.raised THEN @
                       ELSE _call(GEMINI_MODEL_STRONG, out),
              !.pc = "merge"]

\* mutant: a vision value sets the confidence to 0.90 whatever it was
Merge_flat_conf(c) ==
    LET ai == VisionResult(c.data)
        sc_hit  == TruthyStr(ai.share_code_raw9)
        dob_hit == ai.dob_day # <<>> /\ ai.dob_month # <<>>
                   /\ ai.dob_year # <<>>
    IN  [c EXCEPT
           !.sc_raw = IF sc_hit THEN ai.share_code_raw9 ELSE @,
           !.sc_conf = IF sc_hit THEN AI_CONF_FLOOR ELSE @,
           !.sc_reason = IF sc_hit THEN Append(@, "|ai") ELSE @,
           !.d = IF dob_hit THEN IntOf(ai.dob_day) ELSE @,
           !.m = IF dob_hit THEN IntOf(ai.dob_month) ELSE @,
           !.y = IF dob_hit THEN IntOf(ai.dob_year) ELSE @,
           !.dob_conf = IF dob_hit THEN AI_CONF_FLOOR ELSE @,
           !.dob_reason = IF dob_hit THEN Append(@, "|ai") ELSE @,
           !.ai_used = TRUE,
           !.ai_notes = ai.notes,
           !.pc = "emit"]

\* lines 396-408 and 445-456
Merge(c) ==
    LET ai == VisionResult(c.data)
        sc_hit  == TruthyStr(ai.share_code_raw9)
        dob_hit == ai.dob_day # <<>> /\ ai.dob_month # <<>>
                   /\ ai.dob_year # <<>>
    IN  [c EXCEPT
           !.sc_raw = IF sc_hit THEN ai.share_code_raw9 ELSE @,
           !.sc_conf = IF sc_hit /\ @ < AI_CONF_FLOOR THEN AI_CONF_FLOOR ELSE @,
           !.sc_reason = IF sc_hit THEN Append(@, "|ai") ELSE @,
           !.d = IF dob_hit THEN IntOf(ai.dob_day) ELSE @,
           !.m = IF dob_hit THEN IntOf(ai.dob_month) ELSE @,
           !.y = IF dob_hit THEN IntOf(ai.dob_year) ELSE @,
           !.dob_conf = IF dob_hit /\ @ < AI_CONF_FLOOR THEN AI_CONF_FLOOR
                        ELSE @,
           !.dob_reason = IF dob_hit THEN Append(@, "|ai") ELSE @,
           !.ai_used = TRUE,
           !.ai_notes = ai.notes,
           !.pc = "emit"]

\* lines 461-479
Emit(c) ==
    [c EXCEPT
       !.result =
          [ok |-> TRUE,
           share_code_raw9 |-> OrElse(c.sc_raw, <<>>),
           share_code_display |->
               IF TruthyStr(c.sc_raw) THEN format_share_code_spaced(c.sc_raw)
               ELSE <<>>,
           dob_day |-> IF TruthyInt(c.d) THEN FmtInt(c.d, 2) ELSE <<>>,
           dob_month |-> IF TruthyInt(c.m) THEN FmtInt(c.m, 2) ELSE <<>>,
           dob_year |-> IF TruthyInt(c.y) THEN FmtInt(c.y, 4) ELSE <<>>,
           confidence |->
               [share_code |-> c.sc_conf, dob |-> c.dob_conf,
                share_reason |-> c.sc_reason, dob_reason |-> c.dob_reason,
                text_layer_used |-> c.text_share # EmptyShareText
                                    \/ c.text_dob # EmptyDobText],
           ai_used |-> c.ai_used,
           ai_notes |-> c.ai_notes],
       !.pc = "done"]

(***************************************************************************)
(* Inputs of the extraction                                                *)
(***************************************************************************)

\* the most regex matches a document text holds
MaxMatches == 1

SeqsUpTo(S, n) == UNION {[1..k -> S] : k \in 0..n}

CodeA == <<"A","B","C","1","2","3","D","E","F">>

\* a share code as the vision model may write it: "w7k 9xq-2rt"
ScSpaced == <<"w","7","k"," ","9","x","q","-","2","r","t">>

\* too short to be a share code: "W7K9X"
ScShort == <<"W","7","K","9","X">>

ShareMatches == {[raw |-> CodeA, pos |-> 12], [raw |-> CodeA, pos |-> 100]}

ShareTexts ==
    {[label |-> l, cands |-> cs, runs |-> <<>>] :
        l \in {-1, 0}, cs \in SeqsUpTo(ShareMatches, MaxMatches)}

NumericMatches ==
    {[d |-> 13, mo |-> 8, y |-> 1992, pos |-> 20],
     [d |-> 1, mo |-> 1, y |-> 0, pos |-> 20],
     [d |-> 13, mo |-> 8, y |-> 2101, pos |-> 20]}

WordMatches == {[d |-> 13, mon |-> "AUG", y |-> 92, pos |-> 120]}

\* "DATE OF BIRTH" at the start of the text
LabelFirst == [NoLabels EXCEPT !["DATE OF BIRTH"] = {0}]

DobTexts ==
    {[occ |-> oc, dot |-> ds, slash |-> <<>>, word |-> ws] :
        oc \in {NoLabels, LabelFirst},
        ds \in SeqsUpTo(NumericMatches, MaxMatches),
        ws \in SeqsUpTo(WordMatches, MaxMatches)}

ImageDoc(empty_text) ==
    [empty |-> FALSE, pdf |-> FALSE, layer |-> empty_text, ext |-> ".jpg"]

EmptyDoc(empty_text) ==
    [empty |-> TRUE, pdf |-> FALSE, layer |-> empty_text, ext |-> ""]

PdfDoc(text) == [empty |-> FALSE, pdf |-> TRUE, layer |-> text, ext |-> ".pdf"]

ShareDocs ==
    {ImageDoc(EmptyShareText), EmptyDoc(EmptyShareText)}
    \cup {PdfDoc(t) : t \in ShareTexts}

DobDocs ==
    {ImageDoc(EmptyDobText), EmptyDoc(EmptyDobText)}
    \cup {PdfDoc(t) : t \in DobTexts \cup {EmptyDobText}}

Thresholds == {DEFAULT_CONF_THRESHOLD, 90}

\* the current two-digit year
CurrentYY == {26}

DateStrings ==
    {EmptyDateStr,
     [empty |-> FALSE, dt |-> NoDate],
     [empty |-> FALSE, dt |-> [day |-> 3, month |-> 6, year |-> 1978]],
     [empty |-> FALSE, dt |-> [day |-> 3, month |-> 6, year |-> 96]],
     [empty |-> FALSE, dt |-> [day |-> 3, month |-> 6, year |-> 2101]]}

\* the JSON objects a model response may parse to
Payloads == {[raised |-> FALSE, sc |-> sc, dob |-> dob] :
                sc \in {<<>>, ScSpaced, ScShort}, dob \in DateStrings}

\* generate_content raised (network, quota, refusal)
Raised == [raised |-> TRUE, sc |-> <<>>, dob |-> EmptyDateStr]

CallOutcomes == {Raised} \cup Payloads

(***************************************************************************)
(* Actions of the extraction                                               *)
(***************************************************************************)

ExtractText(i) ==
    /\ ex[i].pc = "start"
    /\ ex' = [ex EXCEPT ![i] = TextLayers(@)]
    /\ UNCHANGED <<rn, rq, tx, GEMINI_CLIENT, od>>

Match(i) ==
    /\ ex[i].pc = "texted"
    /\ ex' = [ex EXCEPT ![i] = Matchers(@)]
    /\ UNCHANGED <<rn, rq, tx, GEMINI_CLIENT, od>>

BuildImages(i) ==
    /\ ex[i].pc = "images"
    /\ \E rs \in RenderOutcomes(ex[i].share_file),
          rd \in RenderOutcomes(ex[i].dob_file) :
          ex' = [ex EXCEPT ![i] = VisionImages(@, rs, rd)]
    /\ UNCHANGED <<rn, rq, tx, GEMINI_CLIENT, od>>

InvokeVision(i) ==
    /\ ex[i].pc = "vision"
    /\ ex' = [ex EXCEPT ![i] = VisionEnter(@, GEMINI_CLIENT)]
    /\ UNCHANGED <<rn, rq, tx, GEMINI_CLIENT, od>>

RequestFast(i) ==
    /\ ex[i].pc = "fast"
    /\ \E out \in CallOutcomes : ex' = [ex EXCEPT ![i] = FastCall(@, out)]
    /\ UNCHANGED <<rn, rq, tx, GEMINI_CLIENT, od>>

RequestStrong(i) ==
    /\ ex[i].pc = "strong"
    /\ \E out \in CallOutcomes : ex' = [ex EXCEPT ![i] = StrongCall(@, out)]
    /\ UNCHANGED <<rn, rq, tx, GEMINI_CLIENT, od>>

\* mutant: the response of the model is kept in one slot that all calls share
MergeVision_shared_data(i) ==
    /\ ex[i].pc = "merge"
    /\ ex' = [ex EXCEPT ![i] = Merge([@ EXCEPT !.data = ex[1].data])]
    /\ UNCHANGED <<rn, rq, tx, GEMINI_CLIENT, od>>

MergeVision(i) ==
    /\ ex[i].pc = "merge"
    /\ ex' = [ex EXCEPT ![i] = Merge(@)]
    /\ UNCHANGED <<rn, rq, tx, GEMINI_CLIENT, od>>

Return(i) ==
    /\ ex[i].pc = "emit"
    /\ ex' = [ex EXCEPT ![i] = Emit(@)]
    /\ UNCHANGED <<rn, rq, tx, GEMINI_CLIENT, od>>

Init ==
    /\ GEMINI_CLIENT \in {"None", "client"}
    /\ \E sd \in ShareDocs, dd \in DobDocs, thr \in Thresholds,
          yy \in CurrentYY :
          ex = <<NewCall(sd, dd, thr, yy)>>
    /\ rn = <<>>
    /\ rq = <<>>
    /\ tx = <<>>
    /\ od = NoDir

Next ==
    \/ \E i \in DOMAIN ex : ExtractText(i)
    \/ \E i \in DOMAIN ex : Match(i)
    \/ \E i \in DOMAIN ex : BuildImages(i)
    \/ \E i \in DOMAIN ex : InvokeVision(i)
    \/ \E i \in DOMAIN ex : RequestFast(i)
    \/ \E i \in DOMAIN ex : RequestStrong(i)
    \/ \E i \in DOMAIN ex : MergeVision(i)
    \/ \E i \in DOMAIN ex : Return(i)

Spec == Init /\ [][Next]_vars

\* two requests in flight at once, each with its own documents: the first
\* sends a share-code PDF with a text layer and a photo of the DOB document,
\* the second a photo of the share-code document and a DOB PDF
PairShareDocs ==
    {ImageDoc(EmptyShareText),
     PdfDoc([label |-> 0, cands |-> <<[raw |-> CodeA, pos |-> 12]>>,
             runs |-> <<>>])}

PairDobDocs ==
    {ImageDoc(EmptyDobText),
     PdfDoc([occ |-> LabelFirst,
             dot |-> <<[d |-> 13, mo |-> 8, y |-> 1992, pos |-> 20]>>,
             slash |-> <<>>, word |-> <<>>])}

InitPair ==
    /\ GEMINI_CLIENT \in {"None", "client"}
    /\ \E sd1 \in PairShareDocs, dd1 \in PairDobDocs,
          sd2 \in PairShareDocs, dd2 \in PairDobDocs, yy \in CurrentYY :
          ex = <<NewCall(sd1, dd1, DEFAULT_CONF_THRESHOLD, yy),
                 NewCall(sd2, dd2, DEFAULT_CONF_THRESHOLD, yy)>>
    /\ rn = <<>>
    /\ rq = <<>>
    /\ tx = <<>>
    /\ od = NoDir

SpecPair == InitPair /\ [][Next]_vars

(***************************************************************************)
(* Properties of the extraction                                            *)
(***************************************************************************)

\* the text-layer candidates of call c, from its documents alone
TextShare(c) ==
    extract_share_code_from_text(
        IF _is_pdf_bytes(c.share_file) THEN c.share_file.layer
        ELSE EmptyShareText)

TextDob(c) ==
    parse_dob_from_text(
        IF _is_pdf_bytes(c.dob_file) THEN c.dob_file.layer ELSE EmptyDobText,
        c.yy)

ShareBelow(c) ==
    ~TruthyStr(TextShare(c).raw) \/ TextShare(c).conf < c.conf_threshold

DobBelow(c) ==
    \/ TextDob(c).d \in {NoneInt, 0}
    \/ TextDob(c).m \in {NoneInt, 0}
    \/ TextDob(c).y \in {NoneInt, 0}
    \/ TextDob(c).conf < c.conf_threshold

\* the image lists a document can give when rendering does not raise
ImageLists(doc, which) ==
    {file_bytes_to_vision_images(doc, which, r) :
        r \in RenderOutcomes(doc) \ {"raise"}}

CallsWellFormed(c) ==
    /\ Len(c.calls) <= 1
    /\ \A k \in DOMAIN c.calls :
          /\ c.calls[k].share_images \in ImageLists(c.share_file, "share")
          /\ c.calls[k].dob_images \in ImageLists(c.dob_file, "dob")

\* C1 (as stated): gemini_vision_extract is invoked at most once per call of
\* extract_rtw_fields, with the images of both documents, and exactly once
\* whenever a field is absent or below threshold.
C1_ExactlyOnceWhenNeeded ==
    \A i \in DOMAIN ex :
        /\ CallsWellFormed(ex[i])
        /\ (ex[i].pc = "done" /\ (ShareBelow(ex[i]) \/ DobBelow(ex[i])))
              => Len(ex[i].calls) = 1

\* C1 (amended): gemini_vision_extract is invoked at most once per call, with
\* the image lists of both documents; when a field is absent or below
\* threshold it is invoked exactly once unless building the image lists
\* raised, in which case it is not invoked at all.
C1_AtMostOnceBothDocs ==
    \A i \in DOMAIN ex :
        /\ CallsWellFormed(ex[i])
        /\ (ex[i].pc = "done" /\ (ShareBelow(ex[i]) \/ DobBelow(ex[i])))
              => Len(ex[i].calls) = (IF ex[i].e = RENDER_ERROR THEN 0 ELSE 1)

C1_Witness ==
    \E i \in DOMAIN ex :
        /\ ex[i].pc = "done"
        /\ ShareBelow(ex[i])
        /\ Len(ex[i].calls) = 1
        /\ Len(ex[i].calls[1].share_images) = 4
        /\ Len(ex[i].calls[1].dob_images) = 1

\* C2: a field whose text-layer candidate is present at or above the
\* threshold keeps its text-layer value, confidence and reason, whatever the
\* vision call (made for the other field) returns for it.
C2_HighConfidenceFieldKept ==
    \A i \in DOMAIN ex :
        ex[i].pc = "done" =>
            /\ ~ShareBelow(ex[i]) =>
                  /\ ex[i].result.share_code_raw9 = TextShare(ex[i]).raw
                  /\ ex[i].result.confidence.share_code = TextShare(ex[i]).conf
                  /\ ex[i].result.confidence.share_reason
                        = TextShare(ex[i]).reason
            /\ ~DobBelow(ex[i]) =>
                  /\ ex[i].result.dob_day = FmtInt(TextDob(ex[i]).d, 2)
                  /\ ex[i].result.dob_month = FmtInt(TextDob(ex[i]).m, 2)
                  /\ ex[i].result.dob_year = FmtInt(TextDob(ex[i]).y, 4)
                  /\ ex[i].result.confidence.dob = TextDob(ex[i]).conf
                  /\ ex[i].result.confidence.dob_reason = TextDob(ex[i]).reason

\* the result fields when only the text layer contributes
TextOnlyFields(c, r) ==
    /\ r.share_code_raw9 = OrElse(TextShare(c).raw, <<>>)
    /\ r.confidence.share_code = TextShare(c).conf
    /\ r.confidence.share_reason = TextShare(c).reason
    /\ r.dob_day = (IF TextDob(c).d \in {NoneInt, 0} THEN <<>>
                    ELSE FmtInt(TextDob(c).d, 2))
    /\ r.dob_month = (IF TextDob(c).m \in {NoneInt, 0} THEN <<>>
                      ELSE FmtInt(TextDob(c).m, 2))
    /\ r.dob_year = (IF TextDob(c).y \in {NoneInt, 0} THEN <<>>
                     ELSE FmtInt(TextDob(c).y, 4))
    /\ r.confidence.dob = TextDob(c).conf
    /\ r.confidence.dob_reason = TextDob(c).reason

\* C3: when the vision call raises, extract_rtw_fields still returns ok = true
\* with exactly the text-layer values, confidences and reasons, ai_used false
\* and a non-empty ai_notes.
C3_VisionExceptionKeepsTextLayer ==
    \A i \in DOMAIN ex :
        (ex[i].pc = "done" /\ ex[i].calls # <<>> /\ ex[i].e # "") =>
            /\ ex[i].result.ok = TRUE
            /\ TextOnlyFields(ex[i], ex[i].result)
            /\ ex[i].result.ai_used = FALSE
            /\ ex[i].result.ai_notes # <<>>
            /\ ex[i].result.ai_notes[2] # ""

C3_Witness ==
    \E i \in DOMAIN ex :
        /\ ex[i].pc = "done" /\ ex[i].calls # <<>> /\ ex[i].e # ""
        /\ ex[i].result.share_code_raw9 = CodeA
        /\ ex[i].result.dob_day = <<>>

\* C4: with an inert client (GEMINI_CLIENT is None) an invocation of
\* gemini_vision_extract does not raise: it returns an empty result.
C4_InertClientReturnsEmpty ==
    \A i \in DOMAIN ex :
        (GEMINI_CLIENT = "None" /\ ex[i].calls # <<>>) =>
            /\ ex[i].e = ""
            /\ ex[i].pc = "done" =>
                  (ex[i].result.ai_used /\ TextOnlyFields(ex[i], ex[i].result))

\* the fast result lacks a valid share code or a parseable DOB
Lacks(data) ==
    \/ data.empty
    \/ Len(StripNonAlnum(Upper(data.sc))) # SHARE_CODE_LEN
    \/ data.dob.empty
    \/ data.dob.dt = NoDate
    \/ LET yr == data.dob.dt.year
       IN  IF yr < 100 THEN FALSE ELSE yr < YEAR_MIN \/ yr > YEAR_MAX

\* C5: one invocation of gemini_vision_extract makes at most two model
\* requests, the fast model first; the strong model is requested exactly when
\* the fast result (a raised fast call included) lacks a valid share code or
\* a parseable DOB.
C5_FastThenStrong ==
    [][\A i \in DOMAIN ex :
          LET c == ex[i]
              n == ex'[i]
          IN  /\ n.requests # c.requests =>
                    \/ c.requests = <<>> /\ n.requests = <<GEMINI_MODEL_FAST>>
                    \/ /\ c.requests = <<GEMINI_MODEL_FAST>>
                       /\ n.requests = <<GEMINI_MODEL_FAST, GEMINI_MODEL_STRONG>>
                       /\ Lacks(c.data)
              /\ (c.requests = <<GEMINI_MODEL_FAST>> /\ n.requests = c.requests
                  /\ n.pc # c.pc) => ~Lacks(c.data)
              /\ (c.pc = "fast" /\ n.pc # c.pc) =>
                    n.requests = <<GEMINI_MODEL_FAST>>
      ]_vars

C5_Witness ==
    \E i \in DOMAIN ex :
        /\ ex[i].pc = "done"
        /\ ex[i].requests = <<GEMINI_MODEL_FAST, GEMINI_MODEL_STRONG>>
        /\ ex[i].data.model = GEMINI_MODEL_STRONG
        /\ ex[i].result.share_code_raw9 # <<>>

\* the `if need_ai:` block was entered: it ran to its end or its handler ran
Escalated(c) == c.ai_used \/ c.e # "" \/ c.calls # <<>>

FromMatchers(c) == c.pc \notin {"start", "texted"} /\ ~c.ai_used

\* C14: parse_dob_from_text never returns a date whose year lies outside
\* [1900, 2100]: it returns no date (day, month and year None, confidence
\* 0) or a year within the range.
C14_TextYearInRange ==
    \A i \in DOMAIN ex :
        FromMatchers(ex[i]) =>
            \/ /\ ex[i].d = NoneInt /\ ex[i].m = NoneInt /\ ex[i].y = NoneInt
               /\ ex[i].dob_conf = 0
            \/ ex[i].y >= 1900 /\ ex[i].y <= 2100

\* C15: in every result of extract_rtw_fields the three DOB fields are all
\* empty or all non-empty, and when non-empty dob_day is a 2-digit string
\* in 01..31, dob_month a 2-digit string in 01..12 and dob_year a 4-digit
\* string in 1900..2100.
C15_DobFieldsTogether ==
    \A i \in DOMAIN ex :
        ex[i].pc = "done" =>
            LET r == ex[i].result
            IN  \/ r.dob_day = <<>> /\ r.dob_month = <<>> /\ r.dob_year = <<>>
                \/ /\ Len(r.dob_day) = 2 /\ InRange(r.dob_day, 1, 31)
                   /\ Len(r.dob_month) = 2 /\ InRange(r.dob_month, 1, 12)
                   /\ Len(r.dob_year) = 4 /\ InRange(r.dob_year, 1900, 2100)

\* C16: in every result of extract_rtw_fields share_code_raw9 is empty or
\* exactly 9 characters over [A-Z0-9], from the text layer or from the
\* vision fallback alike, and share_code_display is empty exactly when
\* share_code_raw9 is, and otherwise is the raw code as three triplets
\* separated by single spaces.
C16_ShareCodeCanonical ==
    \A i \in DOMAIN ex :
        ex[i].pc = "done" =>
            LET raw == ex[i].result.share_code_raw9
                dsp == ex[i].result.share_code_display
            IN  /\ \/ raw = <<>>
                   \/ /\ Len(raw) = 9
                      /\ \A k \in DOMAIN raw : raw[k] \in AlnumUpper
                /\ dsp = <<>> <=> raw = <<>>
                /\ raw # <<>> =>
                      dsp = <<raw[1], raw[2], raw[3], " ", raw[4], raw[5],
                              raw[6], " ", raw[7], raw[8], raw[9]>>

\* a result whose share code came from the vision fallback, which wrote it
\* in lower case with separators
C16_Witness ==
    \E i \in DOMAIN ex :
        /\ ex[i].pc = "done" /\ ex[i].ai_used
        /\ ex[i].data.sc = ScSpaced
        /\ ex[i].result.share_code_raw9
              = <<"W","7","K","9","X","Q","2","R","T">>
        /\ ex[i].result.share_code_display
              = <<"W","7","K"," ","9","X","Q"," ","2","R","T">>

\* the fields of the result of call c that were taken from the vision
\* fallback
ShareFromVision(c) ==
    c.ai_used /\ VisionResult(c.data).share_code_raw9 # <<>>

DobFromVision(c) ==
    /\ c.ai_used
    /\ VisionResult(c.data).dob_day # <<>>
    /\ VisionResult(c.data).dob_month # <<>>
    /\ VisionResult(c.data).dob_year # <<>>

\* C17: in every result of extract_rtw_fields a field whose value was taken
\* from the vision fallback has confidence at least 0.90, and no field's
\* confidence is below the confidence the text layer gave it.
C17_VisionConfidenceFloor ==
    \A i \in DOMAIN ex :
        ex[i].pc = "done" =>
            LET c == ex[i]
                conf == c.result.confidence
            IN  /\ ShareFromVision(c) => conf.share_code >= 90
                /\ DobFromVision(c) => conf.dob >= 90
                /\ conf.share_code >= TextShare(c).conf
                /\ conf.dob >= TextDob(c).conf

\* a result where vision replaced a share code the text layer had found with
\* more than 0.90, and gave a DOB the text layer had not found
C17_Witness ==
    \E i \in DOMAIN ex :
        /\ ex[i].pc = "done"
        /\ ShareFromVision(ex[i]) /\ DobFromVision(ex[i])
        /\ TextShare(ex[i]).conf = 95
        /\ ex[i].result.confidence.share_code = 95
        /\ TextDob(ex[i]).conf = 0
        /\ ex[i].result.confidence.dob = 90

\* what a call that runs alone does next from the locals c, for every outcome
\* of rendering and of the model requests
StepsAlone(c, client) ==
    CASE c.pc = "start" -> {TextLayers(c)}
      [] c.pc = "texted" -> {Matchers(c)}
      [] c.pc = "images" ->
            {VisionImages(c, rs, rd) :
                rs \in RenderOutcomes(c.share_file),
                rd \in RenderOutcomes(c.dob_file)}
      [] c.pc = "vision" -> {VisionEnter(c, client)}
      [] c.pc = "fast" -> {FastCall(c, out) : out \in CallOutcomes}
      [] c.pc = "strong" -> {StrongCall(c, out) : out \in CallOutcomes}
      [] c.pc = "merge" -> {Merge(c)}
      [] c.pc = "emit" -> {Emit(c)}
      [] OTHER -> {}

\* C26: two calls of extract_rtw_fields that run concurrently do not affect
\* each other: in every interleaving, a step of one call leaves the arguments,
\* locals and result of the other as they were, is a step the call could
\* take running alone from its own locals, and leaves the model-client
\* handle, the only state they share, unchanged; so each call returns the
\* result it returns when run alone.
C26_ConcurrentCallsIndependent ==
    [][/\ GEMINI_CLIENT' = GEMINI_CLIENT
       /\ DOMAIN ex' = DOMAIN ex
       /\ \A i \in DOMAIN ex :
             ex'[i] # ex[i] =>
                /\ ex'[i] \in StepsAlone(ex[i], GEMINI_CLIENT)
                /\ \A k \in DOMAIN ex \ {i} : ex'[k] = ex[k]
      ]_vars

\* both calls are inside the vision fallback at once, with different
\* responses, after the first finished its fast request and the second its
\* strong one
C26_Witness ==
    /\ Len(ex) = 2
    /\ ex[1].pc = "merge" /\ ex[1].requests = <<GEMINI_MODEL_FAST>>
    /\ ex[2].pc = "merge" /\ Len(ex[2].requests) = 2
    /\ ex[1].data.sc # ex[2].data.sc
    /\ ex[1].sc_raw # ex[2].sc_raw

\* C27: extract_rtw_fields returns a result with ok = true and never raises,
\* whatever the documents (PDF, non-PDF, empty), the text layers, the matchers
\* and the vision fallback (both fields, one, none, raising, inert) do: a call
\* that has not returned goes on, an exception raised on the way is handled,
\* and the result returned has ok = true.
C27_AlwaysReturnsOk ==
    \A i \in DOMAIN ex :
        /\ ex[i].pc = "done" => ex[i].result.ok = TRUE
        /\ ex[i].pc # "done" =>
              /\ ex[i].result = NoResult
              /\ StepsAlone(ex[i], GEMINI_CLIENT) # {}
        /\ ex[i].e # "" => ex[i].pc \in {"emit", "done"}

\* an empty DOB document, a share-code PDF whose text layer gave the code,
\* and a vision fallback whose two model requests both raised
C27_Witness ==
    \E i \in DOMAIN ex :
        /\ ex[i].pc = "done" /\ ex[i].result.ok = TRUE
        /\ ex[i].dob_file.empty /\ _is_pdf_bytes(ex[i].share_file)
        /\ ex[i].result.share_code_raw9 = CodeA
        /\ Len(ex[i].requests) = 2 /\ ex[i].data = EmptyData
        /\ ex[i].result.dob_day = <<>>

\* rendering a page of the PDF raised and the call still returned ok = true
C27_RenderRaised ==
    \E i \in DOMAIN ex :
        ex[i].pc = "done" /\ ex[i].e = RENDER_ERROR /\ ex[i].result.ok = TRUE

\* the text layer of the document of call c gave the regexes no match
NoShareMatch(c) ==
    LET t == IF _is_pdf_bytes(c.share_file) THEN c.share_file.layer
             ELSE EmptyShareText
    IN  t.cands = <<>> /\ t.runs = <<>>

NoDobMatch(c) ==
    LET t == IF _is_pdf_bytes(c.dob_file) THEN c.dob_file.layer
             ELSE EmptyDobText
    IN  t.dot = <<>> /\ t.slash = <<>> /\ t.word = <<>>

\* a field without a text match and without a vision value is empty with
\* confidence 0
C28_NoSourceEmptyZero ==
    \A i \in DOMAIN ex :
        ex[i].pc = "done" =>
            LET c == ex[i]
                r == c.result
            IN  /\ (NoShareMatch(c) /\ ~ShareFromVision(c)) =>
                      (r.share_code_raw9 = <<>> /\ r.confidence.share_code = 0)
                /\ (NoDobMatch(c) /\ ~DobFromVision(c)) =>
                      /\ r.dob_day = <<>> /\ r.dob_month = <<>>
                      /\ r.dob_year = <<>>
                      /\ r.confidence.dob = 0
                /\ r.share_code_raw9 = <<>> => r.confidence.share_code = 0

\* C28: in every result of extract_rtw_fields a field for which neither the
\* text layer produced a match nor the vision fallback produced a value is
\* empty with confidence exactly 0, and a field reported empty always has
\* confidence 0.
C28_EmptyFieldZeroConfidence ==
    /\ C28_NoSourceEmptyZero
    /\ \A i \in DOMAIN ex :
          ex[i].pc = "done" =>
             LET r == ex[i].result
             IN  (r.dob_day = <<>> \/ r.dob_month = <<>> \/ r.dob_year = <<>>)
                    => r.confidence.dob = 0

\* the DOB gemini_vision_extract would return for data, <<>> when it has none
VisionDob(data) ==
    LET v == VisionResult(data)
    IN  IF v.dob_day # <<>> /\ v.dob_month # <<>> /\ v.dob_year # <<>>
        THEN <<v.dob_day, v.dob_month, v.dob_year>>
        ELSE <<>>

\* C30: escalating from the fast to the strong model never loses information:
\* a valid share code or a valid DOB that the fast model returned is still
\* what gemini_vision_extract returns when the strong request raises or its
\* response lacks that field, is empty or unparseable.
C30_EscalationKeepsFastFields ==
    [][\A i \in DOMAIN ex :
          LET c == ex[i]
              n == ex'[i]
              fast_sc == VisionResult(c.data).share_code_raw9
              fast_dob == VisionDob(c.data)
          IN  (c.pc = "strong" /\ n.pc = "merge") =>
                 /\ fast_sc # <<>> =>
                       VisionResult(n.data).share_code_raw9 # <<>>
                 /\ fast_dob # <<>> => VisionDob(n.data) # <<>>
      ]_vars

\* the strong request raised and the fields of the fast response are kept
C30_KeptWhenStrongRaises ==
    [][\A i \in DOMAIN ex :
          (ex[i].pc = "strong" /\ ex'[i].pc = "merge"
           /\ ex'[i].data.model # GEMINI_MODEL_STRONG) =>
              ex'[i].data = ex[i].data
      ]_vars

(***************************************************************************)
(* The text matchers on their own                                          *)
(*                                                                         *)
(* tx[i] is one call of parse_dob_from_text or of                          *)
(* extract_share_code_from_text: its text, and once it returned, its       *)
(* result.  For parse_dob_from_text, scores lists the confidence the loops *)
(* computed for each match that passed the day and month checks.           *)
(***************************************************************************)

\* the most matches of one date shape in a text
MaxDates == 1

\* the most share-code candidates of one kind in a text
MaxCodes == 2

CodeB == <<"W","7","K","9","X","Q","2","R","T">>

DotDates ==
    {[d |-> 13, mo |-> 8, y |-> 1992, pos |-> 79],
     [d |-> 13, mo |-> 8, y |-> 2101, pos |-> 20],
     [d |-> 1, mo |-> 1, y |-> 0, pos |-> 20],
     [d |-> 32, mo |-> 8, y |-> 1992, pos |-> 20]}

SlashDates ==
    {[d |-> 3, mo |-> 6, y |-> 1978, pos |-> 80],
     [d |-> 3, mo |-> 13, y |-> 1978, pos |-> 20]}

WordDates ==
    {[d |-> 13, mon |-> "AUG", y |-> 92, pos |-> 199],
     [d |-> 13, mon |-> "AUG", y |-> 1992, pos |-> 1005],
     [d |-> 13, mon |-> "XYZ", y |-> 1992, pos |-> 20]}

\* no label; one label at the start; "DOB" in a heading and again next to
\* the date; two different labels
LabelOccurrences ==
    {NoLabels,
     LabelFirst,
     [NoLabels EXCEPT !["DOB"] = {0, 1000}],
     [NoLabels EXCEPT !["DATE OF BIRTH"] = {0}, !["DOB"] = {279}]}

DateTexts ==
    {[occ |-> oc, dot |-> ds, slash |-> ss, word |-> ws] :
        oc \in LabelOccurrences,
        ds \in SeqsUpTo(DotDates, MaxDates),
        ss \in SeqsUpTo(SlashDates, MaxDates),
        ws \in SeqsUpTo(WordDates, MaxDates)}

CodeMatches ==
    {[raw |-> CodeA, pos |-> 12], [raw |-> CodeB, pos |-> 79],
     [raw |-> CodeA, pos |-> 100], [raw |-> CodeB, pos |-> 700]}

CodeRuns == {[raw |-> CodeB, pos |-> 40], [raw |-> CodeA, pos |-> 300]}

\* label is t.find("SHARE CODE"): -1, or the index of the first occurrence
CodeTexts ==
    {[label |-> l, cands |-> cs, runs |-> rs] :
        l \in {-1, 0, 500},
        cs \in SeqsUpTo(CodeMatches, MaxCodes),
        rs \in SeqsUpTo(CodeRuns, MaxCodes)}

\* "conf = score_pos(m.start())" for the matches that pass the day and month
\* checks, in the order the three loops visit them
RECURSIVE NumericScores(_, _)
NumericScores(ms, labels) ==
    IF ms = <<>> THEN <<>>
    ELSE LET mt == Head(ms)
         IN  (IF 1 <= mt.d /\ mt.d <= 31 /\ 1 <= mt.mo /\ mt.mo <= 12
              THEN <<[pos |-> mt.pos, conf |-> score_pos(labels, mt.pos)]>>
              ELSE <<>>) \o NumericScores(Tail(ms), labels)

RECURSIVE WordScores(_, _)
WordScores(ms, labels) ==
    IF ms = <<>> THEN <<>>
    ELSE LET mt == Head(ms)
         IN  (IF TruthyInt(MonthOf(mt.mon)) /\ 1 <= mt.d /\ mt.d <= 31
              THEN <<[pos |-> mt.pos, conf |-> score_pos(labels, mt.pos)]>>
              ELSE <<>>) \o WordScores(Tail(ms), labels)

Scores(t) ==
    LET labels == label_positions(t.occ)
    IN  NumericScores(t.dot, labels) \o NumericScores(t.slash, labels)
        \o WordScores(t.word, labels)

\* the years the word-month pattern can capture (two to four digits), and
\* the two-digit current years
CapturedYears == 0..99 \cup {100, 192, 1992, 2101}

CurrentYears == 0..99

CodeDigits == <<"0","1","2","3","4","5","6","7","8","9">>

\* strings handed to normalize_share_code: nothing, the empty string, valid
\* codes, "w7k 9xq-2rt", "W7K9X", "abc-123-def", "ABC123DEFG",
\* "ABC_123.DEF", " - ", "AB 12"
CodeStrings ==
    {NoneStr, <<>>, CodeA, CodeB, ScSpaced, ScShort,
     <<"a","b","c","-","1","2","3","-","d","e","f">>,
     <<"A","B","C","1","2","3","D","E","F","G">>,
     <<"A","B","C","_","1","2","3",".","D","E","F">>,
     <<" ","-"," ">>,
     <<"A","B"," ","1","2">>}

\* valid share codes
ValidCodes ==
    {CodeA, CodeB, [k \in 1..SHARE_CODE_LEN |-> CodeDigits[k]],
     [k \in 1..SHARE_CODE_LEN |-> "Z"]}

\* a call of function fn; text is its argument, and yy the current
\* two-digit year it reads from the clock
NewMatch(fn, text, yy) ==
    [fn |-> fn, text |-> text, yy |-> yy, pc |-> "called"]

ParseDob(i) ==
    /\ tx[i].pc = "called" /\ tx[i].fn = "parse_dob_from_text"
    /\ tx' = [tx EXCEPT ![i] =
                 [fn |-> @.fn, text |-> @.text, yy |-> @.yy,
                  pc |-> "returned",
                  out |-> parse_dob_from_text(@.text, @.yy),
                  scores |-> Scores(@.text)]]
    /\ UNCHANGED <<ex, rn, rq, GEMINI_CLIENT, od>>

ExtractShareCode(i) ==
    /\ tx[i].pc = "called" /\ tx[i].fn = "extract_share_code_from_text"
    /\ tx' = [tx EXCEPT ![i] =
                 [fn |-> @.fn, text |-> @.text, yy |-> @.yy,
                  pc |-> "returned",
                  out |-> extract_share_code_from_text(@.text)]]
    /\ UNCHANGED <<ex, rn, rq, GEMINI_CLIENT, od>>

Returned(c, out) ==
    [fn |-> c.fn, text |-> c.text, yy |-> c.yy, pc |-> "returned", out |-> out]

ExpandYear(i) ==
    /\ tx[i].pc = "called" /\ tx[i].fn = "normalize_year_2digit"
    /\ tx' = [tx EXCEPT ![i] =
                 Returned(@, normalize_year_2digit(@.text, @.yy))]
    /\ UNCHANGED <<ex, rn, rq, GEMINI_CLIENT, od>>

AppExpandYear(i) ==
    /\ tx[i].pc = "called" /\ tx[i].fn = "_two_digit_year_to_four"
    /\ tx' = [tx EXCEPT ![i] =
                 Returned(@, _two_digit_year_to_four(@.text, @.yy))]
    /\ UNCHANGED <<ex, rn, rq, GEMINI_CLIENT, od>>

NormalizeShareCode(i) ==
    /\ tx[i].pc = "called" /\ tx[i].fn = "normalize_share_code"
    /\ tx' = [tx EXCEPT ![i] = Returned(@, normalize_share_code(@.text))]
    /\ UNCHANGED <<ex, rn, rq, GEMINI_CLIENT, od>>

FormatShareCode(i) ==
    /\ tx[i].pc = "called" /\ tx[i].fn = "format_share_code_spaced"
    /\ tx' = [tx EXCEPT ![i] = Returned(@, format_share_code_spaced(@.text))]
    /\ UNCHANGED <<ex, rn, rq, GEMINI_CLIENT, od>>

InitText ==
    /\ GEMINI_CLIENT = "None"
    /\ ex = <<>> /\ rn = <<>> /\ rq = <<>> /\ od = NoDir
    /\ \/ \E yy \in CurrentYY :
             \/ \E t \in DateTexts :
                   tx = <<NewMatch("parse_dob_from_text", t, yy)>>
             \/ \E t \in CodeTexts :
                   tx = <<NewMatch("extract_share_code_from_text", t, yy)>>
             \/ \E t \in CodeStrings :
                   tx = <<NewMatch("normalize_share_code", t, yy)>>
             \/ \E t \in ValidCodes \cup CodeStrings :
                   tx = <<NewMatch("format_share_code_spaced", t, yy)>>
       \/ \E y \in CapturedYears, c \in CurrentYears :
             tx = <<NewMatch("normalize_year_2digit", y, c)>>
       \/ \E y \in 0..99, c \in CurrentYears :
             tx = <<NewMatch("_two_digit_year_to_four", y, c)>>

NextText ==
    \/ \E i \in DOMAIN tx : ParseDob(i)
    \/ \E i \in DOMAIN tx : ExtractShareCode(i)
    \/ \E i \in DOMAIN tx : ExpandYear(i)
    \/ \E i \in DOMAIN tx : AppExpandYear(i)
    \/ \E i \in DOMAIN tx : NormalizeShareCode(i)
    \/ \E i \in DOMAIN tx : FormatShareCode(i)

SpecText == InitText /\ [][NextText]_vars

(***************************************************************************)
(* Properties of the text matchers                                         *)
(***************************************************************************)

DobReturned(c) == c.fn = "parse_dob_from_text" /\ c.pc = "returned"

CodeReturned(c) == c.fn = "extract_share_code_from_text" /\ c.pc = "returned"

\* the date matches of text t that pass validation: day in 1..31, month in
\* 1..12 and year, expanded when it has two digits, in [1900, 2100]
ValidDates(t, yy) ==
    {[d |-> mt.d, m |-> mt.mo, y |-> mt.y, pos |-> mt.pos] :
        mt \in {x \in Range(t.dot) \cup Range(t.slash) :
                   /\ x.d \in 1..31 /\ x.mo \in 1..12
                   /\ x.y \in 1900..2100}}
    \cup
    {[d |-> mt.d, m |-> MonthOf(mt.mon),
      y |-> normalize_year_2digit(mt.y, yy), pos |-> mt.pos] :
        mt \in {x \in Range(t.word) :
                   /\ x.d \in 1..31 /\ MonthOf(x.mon) \in 1..12
                   /\ normalize_year_2digit(x.y, yy) \in 1900..2100}}

IsDate(out) == out.d # NoneInt /\ out.m # NoneInt /\ out.y # NoneInt

\* the confidence the matcher assigns to a match at pos
Confidence(t, pos) == score_pos(label_positions(t.occ), pos)

\* C18: among all date matches of the text, of the three shapes together,
\* that pass validation (day in 1..31, month in 1..12, year in
\* [1900, 2100]), parse_dob_from_text returns the one with the highest
\* confidence; it returns a date whenever such a match exists.
C18_BestValidDateReturned ==
    \A i \in DOMAIN tx :
        DobReturned(tx[i]) =>
            LET V == ValidDates(tx[i].text, tx[i].yy)
                out == tx[i].out
            IN  V # {} =>
                   /\ IsDate(out)
                   /\ \E v \in V :
                         /\ out.d = v.d /\ out.m = v.m /\ out.y = v.y
                         /\ out.conf = Confidence(tx[i].text, v.pos)
                   /\ \A w \in V : Confidence(tx[i].text, w.pos) <= out.conf

\* every index at which some date label occurs
Occurrences(t) == UNION {t.occ[kw] : kw \in DOMAIN t.occ}

\* the distance from pos to the nearest occurrence of a label
Nearest(t, pos) == MinOf({Abs(pos - lp) : lp \in Occurrences(t)})

\* the confidence by the distance to the nearest label occurrence
NearestConfidence(t, pos) ==
    IF Occurrences(t) = {} THEN 50
    ELSE IF Nearest(t, pos) < 80 THEN 95
    ELSE IF Nearest(t, pos) < 200 THEN 85
    ELSE 65

\* C19: the confidence parse_dob_from_text assigns to a date match is 0.5
\* when the text has no date label, and otherwise 0.95, 0.85 or 0.65 by the
\* distance d from the match to the nearest label occurrence (d < 80,
\* 80 <= d < 200, d >= 200); so a valid date within 200 characters of a
\* label is returned with confidence at least 0.85 and an unlabeled one
\* with exactly 0.5.
C19_ConfidenceByNearestLabel ==
    \A i \in DOMAIN tx :
        DobReturned(tx[i]) =>
            LET t == tx[i].text
                out == tx[i].out
                V == ValidDates(t, tx[i].yy)
            IN  /\ \A k \in DOMAIN tx[i].scores :
                      tx[i].scores[k].conf
                         = NearestConfidence(t, tx[i].scores[k].pos)
                /\ (\E v \in V : Occurrences(t) # {} /\ Nearest(t, v.pos) < 200)
                      => IsDate(out) /\ out.conf >= 85
                /\ (V # {} /\ Occurrences(t) = {})
                      => IsDate(out) /\ out.conf = 50

\* the first half of C19 alone: the confidence of each match
C19_ScoreByNearestLabel ==
    \A i \in DOMAIN tx :
        DobReturned(tx[i]) =>
            \A k \in DOMAIN tx[i].scores :
                tx[i].scores[k].conf
                   = NearestConfidence(tx[i].text, tx[i].scores[k].pos)

\* the candidates of a share-code text: the grouped matches, or when there
\* is none the bare 9-character runs
CodeCandidates(t) == IF t.cands # <<>> THEN t.cands ELSE t.runs

\* the confidence of a candidate at pos
CodeConfidence(t, pos) ==
    IF t.label = -1 THEN 75
    ELSE IF Abs(pos - t.label) < 80 THEN 95
    ELSE IF Abs(pos - t.label) < 200 THEN 85
    ELSE 75

\* C20: extract_share_code_from_text returns a candidate of the highest
\* confidence, the confidence being 0.95, 0.85 or 0.75 by the distance to
\* the SHARE CODE label (under 80, under 200, 200 or more) and a value in
\* [0.6, 0.75] without a label; of the candidates of highest confidence it
\* returns the first in the text; it returns a code whenever there is a
\* candidate, and none otherwise.
C20_BestCandidateFirstOnTies ==
    \A i \in DOMAIN tx :
        CodeReturned(tx[i]) =>
            LET t == tx[i].text
                cs == CodeCandidates(t)
                out == tx[i].out
            IN  /\ cs = <<>> => out.raw = NoneStr /\ out.conf = 0
                /\ cs # <<>> =>
                      \E k \in DOMAIN cs :
                          /\ out.raw = cs[k].raw
                          /\ out.conf = CodeConfidence(t, cs[k].pos)
                          /\ \A j \in DOMAIN cs :
                                CodeConfidence(t, cs[j].pos) <= out.conf
                          /\ \A j \in 1..(k - 1) :
                                CodeConfidence(t, cs[j].pos) < out.conf
                /\ (cs # <<>> /\ t.label = -1) =>
                      out.conf >= 60 /\ out.conf <= 75

\* two candidates of the same, highest confidence: the first is returned
C20_Witness ==
    \E i \in DOMAIN tx :
        /\ CodeReturned(tx[i])
        /\ tx[i].text.label = 0
        /\ tx[i].text.cands = <<[raw |-> CodeA, pos |-> 12],
                                [raw |-> CodeB, pos |-> 79]>>
        /\ tx[i].out.raw = CodeA
        /\ tx[i].out.conf = 95

\* C21: two-digit year expansion, by normalize_year_2digit and by app.py's
\* _two_digit_year_to_four: for y in 0..99 and current two-digit year c the
\* result is 1900 + y when y > c and 2000 + y when y <= c, so the current
\* year itself maps to the 2000s; normalize_year_2digit returns y >= 100
\* unchanged.
C21_TwoDigitYearExpansion ==
    \A i \in DOMAIN tx :
        (/\ tx[i].pc = "returned"
         /\ tx[i].fn \in {"normalize_year_2digit", "_two_digit_year_to_four"})
        =>
            LET y == tx[i].text
                c == tx[i].yy
            IN  /\ (y \in 0..99 /\ y > c) => tx[i].out = 1900 + y
                /\ (y \in 0..99 /\ y <= c) => tx[i].out = 2000 + y
                /\ (y >= 100 /\ tx[i].fn = "normalize_year_2digit")
                      => tx[i].out = y

\* the year equal to the current two-digit year
C21_Witness ==
    \E i \in DOMAIN tx :
        /\ tx[i].pc = "returned" /\ tx[i].fn = "normalize_year_2digit"
        /\ tx[i].text = 26 /\ tx[i].yy = 26 /\ tx[i].out = 2026

\* C22: for every valid share code x, normalizing the display form of x
\* gives x back, and formatting the display form again gives the same
\* display form.
C22_DisplayRoundTrip ==
    \A i \in DOMAIN tx :
        (/\ tx[i].pc = "returned" /\ tx[i].fn = "format_share_code_spaced"
         /\ Len(tx[i].text) = 9
         /\ \A k \in DOMAIN tx[i].text : tx[i].text[k] \in AlnumUpper)
        =>
            /\ normalize_share_code(tx[i].out) = tx[i].text
            /\ format_share_code_spaced(tx[i].out) = tx[i].out

C22_Witness ==
    \E i \in DOMAIN tx :
        /\ tx[i].pc = "returned" /\ tx[i].fn = "format_share_code_spaced"
        /\ tx[i].text = CodeB
        /\ tx[i].out = <<"W","7","K"," ","9","X","Q"," ","2","R","T">>

IsAlnumUpper(ch) == ch \in AlnumUpper

\* the letters and digits of s, upper-cased, in their order
Alphanumerics(s) == SelectSeq(Upper(s), IsAlnumUpper)

\* C23: normalize_share_code upper-cases its input, strips the separators
\* and returns what remains if and only if that is exactly 9 characters
\* over [A-Z0-9]; for every other input (nothing, empty, fewer or more
\* than 9 alphanumerics after stripping) it returns None.
C23_NormalizeExactlyNine ==
    \A i \in DOMAIN tx :
        (tx[i].pc = "returned" /\ tx[i].fn = "normalize_share_code") =>
            IF tx[i].text # NoneStr /\ Len(Alphanumerics(tx[i].text)) = 9
            THEN tx[i].out = Alphanumerics(tx[i].text)
            ELSE tx[i].out = NoneStr

\* a lower-case code with dashes
C23_Witness ==
    \E i \in DOMAIN tx :
        /\ tx[i].pc = "returned" /\ tx[i].fn = "normalize_share_code"
        /\ tx[i].text = <<"a","b","c","-","1","2","3","-","d","e","f">>
        /\ tx[i].out = CodeA

(***************************************************************************)
(* Form-filling runner (rtw_runner.py)                                     *)
(*                                                                         *)
(* A page, as _detect_rtw_error_message sees it, is [phrases, class_text,  *)
(* summary]: the needles its lower-cased text contains, whether that text  *)
(* contains "govuk-error-summary", and what counting the                   *)
(* .govuk-error-summary elements does ("present", "absent", "raise").      *)
(***************************************************************************)

needles ==
    <<[n |-> "expired", msg |-> "Share code appears to be expired."],
      [n |-> "has expired", msg |-> "Share code appears to be expired."],
      [n |-> "does not match", msg |-> "Details do not match the share code."],
      [n |-> "do not match", msg |-> "Details do not match the share code."],
      [n |-> "could not find",
       msg |-> "Could not find right to work details for these details."],
      [n |-> "cannot view",
       msg |-> "Cannot view right to work details for these details."],
      [n |-> "there is a problem",
       msg |-> "There is a problem with the details provided."],
      [n |-> "error summary",
       msg |-> "There is a problem with the details provided."]>>

\* Python's None for the Optional[str] of _detect_rtw_error_message
NoError == ""

\* mutant: the error-summary guard is dropped
DetectLoop_unguarded(ns, page) ==
    IF \E k \in DOMAIN ns : ns[k].n \in page.phrases
    THEN ns[CHOOSE k \in DOMAIN ns :
                /\ ns[k].n \in page.phrases
                /\ \A j \in 1..(k - 1) : ns[j].n \notin page.phrases].msg
    ELSE NoError

\* "for n, msg in needles"
RECURSIVE DetectLoop(_, _)
DetectLoop(ns, page) ==
    IF ns = <<>> THEN NoError
    ELSE IF Head(ns).n \in page.phrases
         THEN IF page.summary = "present" THEN Head(ns).msg
              ELSE IF page.class_text \/ "there is a problem" \in page.phrases
                   THEN Head(ns).msg
                   ELSE DetectLoop(Tail(ns), page)
         ELSE DetectLoop(Tail(ns), page)

_detect_rtw_error_message(page) == DetectLoop(needles, page)

\* the most needles a page text holds
MaxPhrases == 1

NeedleSet == {needles[k].n : k \in DOMAIN needles}

\* a text that contains "has expired" contains "expired"
Pages ==
    {[phrases |-> ps, class_text |-> ct, summary |-> sm] :
        ps \in {q \in SUBSET NeedleSet :
                   /\ Cardinality(q) <= MaxPhrases
                   /\ "has expired" \in q => "expired" \in q},
        ct \in BOOLEAN,
        sm \in {"present", "absent", "raise"}}

NoPage == [phrases |-> {}, class_text |-> FALSE, summary |-> "absent"]

\* what runs before the try block: lines 233-267
SetupOps ==
    <<"mkdir", "playwright_start", "launch", "new_context", "tracing_start",
      "new_page">>

\* mutant: the download is taken before the last error check
TryOps_download_early ==
    <<"goto", "click_start",
      "fill_share_code", "click_continue", "detect",
      "fill_dob", "click_continue", "detect",
      "fill_company", "click_continue",
      "click_download", "save_as", "detect",
      "tracing_stop", "context_close", "browser_close">>

\* the try block, lines 270-403
TryOps ==
    <<"goto", "click_start",
      "fill_share_code", "click_continue", "detect",
      "fill_dob", "click_continue", "detect",
      "fill_company", "click_continue", "detect",
      "click_download", "save_as",
      "tracing_stop", "context_close", "browser_close">>

\* the `if err:` blocks, lines 284-295, 305-316, 326-337
ErrorOps == <<"error_pdf", "tracing_stop", "context_close", "browser_close">>

\* mutant: the except block does not close the session
HandlerOps_no_close == <<"screenshot", "error_pdf", "tracing_stop">>

\* the except block, lines 413-433
HandlerOps ==
    <<"screenshot", "error_pdf", "tracing_stop", "context_close",
      "browser_close">>

\* the file an operation writes when it succeeds
Writes(op) ==
    CASE op = "screenshot" -> {"error_png"}
      [] op = "error_pdf" -> {"error_pdf"}
      [] op = "tracing_stop" -> {"trace"}
      [] op = "save_as" -> {"pdf"}
      [] OTHER -> {}

\* the artifact paths of lines 236-240
PathOf(kind, tag) ==
    CASE kind = "trace" -> <<"rtw-", tag, ".trace.zip">>
      [] kind = "error_png" -> <<"rtw-", tag, ".error.png">>
      [] kind = "error_pdf" -> <<"RTW-Error-", tag, ".pdf">>
      [] kind = "pdf" -> <<"RTW-Check-", tag, ".pdf">>

NoPath == <<>>

\* the form-filling helpers of lines 130-219
FillOps == {"fill_share_code", "fill_dob", "fill_company"}

\* the selection strategies a helper goes through, in the order of its code:
\* _fill_share_code has the id/name candidates of lines 132-138 and the first
\* text input of lines 149-152; _fill_dob and _fill_company start with
\* page.get_by_label (lines 158-164 and 198-203)
Strategies(op) ==
    IF op = "fill_share_code" THEN <<"pattern", "positional">>
    ELSE <<"label", "pattern", "positional">>

\* what one strategy can do on a page: get_by_label(...).fill fills or raises;
\* the id/name candidates fill, match nothing, or raise inside their
\* try/except-continue; the positional fallback fills, finds too few inputs,
\* or raises; in _fill_dob the fallback's fill is guarded (lines 187-192) while
\* its count is not (line 186)
StrategyOutcomes(op, s) ==
    CASE s = "label" -> {"filled", "raise"}
      [] s = "pattern" -> {"filled", "absent", "raise"}
      [] s = "positional" ->
            IF op = "fill_dob" THEN {"filled", "absent", "raise", "fill_raise"}
            ELSE {"filled", "absent", "raise"}

\* the pages a helper can meet: an outcome for each of its strategies
FormPages(op) ==
    {f \in [{"label", "pattern", "positional"} ->
                {"filled", "absent", "raise", "fill_raise", "none"}] :
        \A s \in DOMAIN f :
            IF \E n \in DOMAIN Strategies(op) : Strategies(op)[n] = s
            THEN f[s] \in StrategyOutcomes(op, s)
            ELSE f[s] = "none"}

\* no form-filling helper has just run
NoFill ==
    [op |-> "", form |-> [s \in {"label", "pattern", "positional"} |-> "none"],
     tried |-> <<>>, out |-> ""]

\* the exception of an unguarded locator call of the positional fallback
LOCATOR_ERROR == "Timeout 30000ms exceeded."

\* the body of a helper from strategy n on: the strategies it tries, what it
\* does ("ok" when it returns, "raise" when it raises) and the exception's text
RECURSIVE FillFrom(_, _, _)
FillFrom(op, form, n) ==
    IF n > Len(Strategies(op))
    THEN [tried |-> <<>>, out |-> "raise", e |-> op]
    ELSE LET s == Strategies(op)[n]
             rest == FillFrom(op, form, n + 1)
         IN  IF form[s] = "filled"
             THEN [tried |-> <<s>>, out |-> "ok", e |-> ""]
             ELSE IF s = "positional" /\ form[s] = "raise"
             THEN [tried |-> <<s>>, out |-> "raise", e |-> "locator"]
             ELSE [rest EXCEPT !.tried = <<s>> \o @]

\* _fill_share_code, _fill_dob, _fill_company
_fill(op, form) == FillFrom(op, form, 1)

NewRun(tag) ==
    [phase |-> "setup", k |-> 1, tag |-> tag,
     log |-> <<>>, files |-> {},
     i |-> 0, waits |-> <<>>,
     page |-> NoPage, err |-> NoError,
     fill |-> NoFill, download |-> FALSE,
     e |-> "", result |-> [returned |-> FALSE], escaped |-> ""]

\* str(e) for an exception raised by operation op
ExceptionText(op) ==
    CASE op = "goto" -> "Failed to load https://www.gov.uk/view-right-to-work"
      [] op = "click_start" -> "Start now button not found"
      [] op = "fill_share_code" -> "Share code input not found"
      [] op = "fill_dob" -> "DOB inputs not found"
      [] op = "fill_company" -> "Company name input not found"
      [] op = "click_continue" -> "Continue button not found"
      [] op = "click_download" -> "Download PDF link not clickable"
      [] op = "wait" -> "Target page, context or browser has been closed"
      [] op = "locator" -> LOCATOR_ERROR
      [] op = "wait_for_load_state" -> "Timeout 90000ms exceeded."
      [] OTHER -> op

\* the log of awaited operations; the locals of a form-filling helper are
\* gone once the next operation starts
Logged(r, op, out) ==
    [r EXCEPT !.log = Append(@, [op |-> op, out |-> out]), !.fill = NoFill]

\* an exception raised outside the try block leaves the coroutine
Escape(r, op) == [r EXCEPT !.phase = "escaped", !.escaped = ExceptionText(op)]

SetupRaise(r, op) == Escape(r, op)

\* lines 233-267
Setup(r, out) ==
    LET op == SetupOps[r.k]
        r1 == Logged(r, op, out)
    IN  IF out = "raise" THEN SetupRaise(r1, op)
        ELSE IF r.k = Len(SetupOps)
             THEN [r1 EXCEPT !.phase = "try", !.k = 1]
             ELSE [r1 EXCEPT !.k = @ + 1]

\* "except Exception as e", line 413
Catch(r, op) == [r EXCEPT !.phase = "handler", !.k = 1, !.e = ExceptionText(op)]

\* lines 405-411
ReturnSuccess(r) ==
    [r EXCEPT
       !.phase = "returned",
       !.result = [returned |-> TRUE, ok |-> TRUE, error |-> NoError,
                   pdf_path |-> PathOf("pdf", r.tag),
                   error_png |-> NoPath,
                   error_pdf |-> IF "error_pdf" \in r.files
                                 THEN PathOf("error_pdf", r.tag) ELSE NoPath,
                   trace_path |-> PathOf("trace", r.tag)]]

\* lines 289-295
ReturnSiteError(r) ==
    [r EXCEPT
       !.phase = "returned",
       !.result = [returned |-> TRUE, ok |-> FALSE, error |-> r.err,
                   pdf_path |-> NoPath,
                   error_png |-> PathOf("error_png", r.tag),
                   error_pdf |-> PathOf("error_pdf", r.tag),
                   trace_path |-> PathOf("trace", r.tag)]]

\* lines 435-441
ReturnException(r) ==
    [r EXCEPT
       !.phase = "returned",
       !.result = [returned |-> TRUE, ok |-> FALSE, error |-> r.e,
                   pdf_path |-> NoPath,
                   error_png |-> PathOf("error_png", r.tag),
                   error_pdf |-> IF "error_pdf" \in r.files
                                 THEN PathOf("error_pdf", r.tag) ELSE NoPath,
                   trace_path |-> PathOf("trace", r.tag)]]

GOTO_TRIES == 3

GOTO_BACKOFF_BASE == 900

GOTO_BACKOFF_STEP == 700

\* mutant: the backoff does not grow with the attempt
GotoAttempt_flat_backoff(r, out, w) ==
    LET r1 == Logged(r, "goto", out)
    IN  IF out = "ok" THEN [r1 EXCEPT !.k = @ + 1]
        ELSE IF w = "raise" THEN Catch(Logged(r1, "wait", "raise"), "wait")
        ELSE LET r2 == [r1 EXCEPT !.waits = Append(@, GOTO_BACKOFF_BASE),
                                  !.i = @ + 1]
             IN  IF r2.i = GOTO_TRIES THEN Catch(r2, "goto") ELSE r2

\* one pass of the loop of _goto_with_retry, lines 79-93; out is "ok" (no
\* response, or a status below 400), "http_error" or "raise", and w is what
\* the page.wait_for_timeout of line 87 does after a failed attempt: it is
\* awaited outside the try of lines 80-86, so its exception leaves
\* _goto_with_retry at once
GotoAttempt(r, out, w) ==
    LET r1 == Logged(r, "goto", out)
    IN  IF out = "ok" THEN [r1 EXCEPT !.k = @ + 1]
        ELSE IF w = "raise" THEN Catch(Logged(r1, "wait", "raise"), "wait")
        ELSE LET r2 == [r1 EXCEPT
                          !.waits = Append(@, GOTO_BACKOFF_BASE
                                              + r.i * GOTO_BACKOFF_STEP),
                          !.i = @ + 1]
             IN  IF r2.i = GOTO_TRIES THEN Catch(r2, "goto") ELSE r2

\* an exception anywhere in the try block reaches the handler
TryRaise(r, op) == Catch(r, op)

\* "await _fill_share_code(page, share_code)" (line 276) and the calls of
\* _fill_dob (line 299) and _fill_company (line 320) on the page form
FillOp(r, form) ==
    LET op == TryOps[r.k]
        f  == _fill(op, form)
        r1 == [Logged(r, op, f.out) EXCEPT
                 !.fill = [op |-> op, form |-> form, tried |-> f.tried,
                           out |-> f.out]]
    IN  IF f.out = "raise" THEN TryRaise(r1, f.e)
        ELSE [r1 EXCEPT !.k = @ + 1]

\* the locators of lines 367-373 that may hold the download link
DOWNLOAD_CANDIDATES == 5

\* what one pass of the loop of lines 378-391 can do: the locator matches
\* nothing, a call in the try raises (the click, or expect_download timing
\* out because no download started), or the download starts
CandidateOutcomes == {"absent", "raise", "download"}

\* the loop of lines 378-391 from candidate n on: whether `download` is set
\* when it ends; it breaks at the first candidate whose download starts
RECURSIVE DownloadLoop(_, _)
DownloadLoop(outs, n) ==
    IF n > Len(outs) THEN FALSE
    ELSE IF outs[n] = "download" THEN TRUE
    ELSE DownloadLoop(outs, n + 1)

\* mutant: the run goes on when no download started
DownloadOp_goes_on(r, pre, outs) ==
    LET download == pre = "ok" /\ DownloadLoop(outs, 1)
        out == IF download THEN "ok" ELSE "raise"
        r1  == [Logged(r, "click_download", out) EXCEPT !.download = download]
    IN  IF pre = "raise" THEN TryRaise(r1, "wait_for_load_state")
        ELSE [r1 EXCEPT !.k = @ + 1]

\* the download section, lines 339-396: pre is what the unguarded waits of
\* lines 340 and 345 do, outs what each candidate does; `clicked` is set
\* together with `download` (lines 385-386), so the run raises "Download PDF
\* link not clickable" exactly when no download started
DownloadOp(r, pre, outs) ==
    LET download == pre = "ok" /\ DownloadLoop(outs, 1)
        out == IF download THEN "ok" ELSE "raise"
        r1  == [Logged(r, "click_download", out) EXCEPT !.download = download]
    IN  IF pre = "raise" THEN TryRaise(r1, "wait_for_load_state")
        ELSE IF ~download THEN TryRaise(r1, "click_download")
        ELSE [r1 EXCEPT !.k = @ + 1]

\* one awaited operation of the try block other than goto, detect, the
\* form-filling helpers and the download section
TryOp(r, out) ==
    LET op == TryOps[r.k]
        r1 == Logged(r, op, out)
    IN  IF out = "raise" THEN TryRaise(r1, op)
        ELSE LET r2 == [r1 EXCEPT !.files = @ \cup Writes(op)]
             IN  IF r.k = Len(TryOps) THEN ReturnSuccess(r2)
                 ELSE [r2 EXCEPT !.k = @ + 1]

\* "err = await _detect_rtw_error_message(page)" and "if err:"
DetectOp(r, page) ==
    LET err == _detect_rtw_error_message(page)
        r1  == [Logged(r, "detect", err) EXCEPT !.page = page, !.err = err]
    IN  IF err # NoError THEN [r1 EXCEPT !.phase = "error", !.k = 1]
        ELSE [r1 EXCEPT !.k = @ + 1]

\* what an operation of the `if err:` block can do: _try_save_error_pdf
\* returns False instead of raising
ErrorOutcomes(op) == IF op = "error_pdf" THEN {"ok", "failed"} ELSE {"ok", "raise"}

\* the `if err:` block is inside the try block
ErrorRaise(r, op) == Catch(r, op)

\* one operation of an `if err:` block
ErrorOp(r, out) ==
    LET op == ErrorOps[r.k]
        r1 == Logged(r, op, out)
    IN  IF out = "raise" THEN ErrorRaise(r1, op)
        ELSE LET r2 == IF out = "ok" THEN [r1 EXCEPT !.files = @ \cup Writes(op)]
                       ELSE r1
             IN  IF r.k = Len(ErrorOps) THEN ReturnSiteError(r2)
                 ELSE [r2 EXCEPT !.k = @ + 1]

\* one operation of the except block: each is wrapped in try/except-pass
HandlerOp(r, out) ==
    LET op == HandlerOps[r.k]
        r1 == Logged(r, op, out)
        r2 == IF out = "ok" THEN [r1 EXCEPT !.files = @ \cup Writes(op)] ELSE r1
    IN  IF r.k = Len(HandlerOps) THEN ReturnException(r2)
        ELSE [r2 EXCEPT !.k = @ + 1]

(***************************************************************************)
(* Actions of the runner                                                   *)
(***************************************************************************)

\* the time.strftime("%Y%m%d-%H%M%S") tags of the runs
Tags == {"20261104-161500"}

SetupStep(j) ==
    /\ rn[j].phase = "setup"
    /\ \E out \in {"ok", "raise"} : rn' = [rn EXCEPT ![j] = Setup(@, out)]
    /\ UNCHANGED <<ex, rq, tx, GEMINI_CLIENT, od>>

Goto(j) ==
    /\ rn[j].phase = "try" /\ TryOps[rn[j].k] = "goto"
    /\ \E out \in {"ok", "http_error", "raise"}, w \in {"ok", "raise"} :
          rn' = [rn EXCEPT ![j] = GotoAttempt(@, out, w)]
    /\ UNCHANGED <<ex, rq, tx, GEMINI_CLIENT, od>>

Fill(j) ==
    /\ rn[j].phase = "try" /\ TryOps[rn[j].k] \in FillOps
    /\ \E form \in FormPages(TryOps[rn[j].k]) :
          rn' = [rn EXCEPT ![j] = FillOp(@, form)]
    /\ UNCHANGED <<ex, rq, tx, GEMINI_CLIENT, od>>

Download(j) ==
    /\ rn[j].phase = "try" /\ TryOps[rn[j].k] = "click_download"
    /\ \E pre \in {"ok", "raise"},
          outs \in [1..DOWNLOAD_CANDIDATES -> CandidateOutcomes] :
          rn' = [rn EXCEPT ![j] = DownloadOp(@, pre, outs)]
    /\ UNCHANGED <<ex, rq, tx, GEMINI_CLIENT, od>>

Operate(j) ==
    /\ rn[j].phase = "try"
    /\ TryOps[rn[j].k] \notin {"goto", "detect", "click_download"} \cup FillOps
    /\ \E out \in {"ok", "raise"} : rn' = [rn EXCEPT ![j] = TryOp(@, out)]
    /\ UNCHANGED <<ex, rq, tx, GEMINI_CLIENT, od>>

Detect(j) ==
    /\ rn[j].phase = "try" /\ TryOps[rn[j].k] = "detect"
    /\ \E page \in Pages : rn' = [rn EXCEPT ![j] = DetectOp(@, page)]
    /\ UNCHANGED <<ex, rq, tx, GEMINI_CLIENT, od>>

AbortOnSiteError(j) ==
    /\ rn[j].phase = "error"
    /\ \E out \in ErrorOutcomes(ErrorOps[rn[j].k]) :
          rn' = [rn EXCEPT ![j] = ErrorOp(@, out)]
    /\ UNCHANGED <<ex, rq, tx, GEMINI_CLIENT, od>>

HandleException(j) ==
    /\ rn[j].phase = "handler"
    /\ \E out \in {"ok", "failed"} : rn' = [rn EXCEPT ![j] = HandlerOp(@, out)]
    /\ UNCHANGED <<ex, rq, tx, GEMINI_CLIENT, od>>

InitRun ==
    /\ GEMINI_CLIENT = "None"
    /\ ex = <<>>
    /\ \E tag \in Tags : rn = <<NewRun(tag)>>
    /\ rq = <<>>
    /\ tx = <<>>
    /\ od = NoDir

NextRun ==
    \/ \E j \in DOMAIN rn : SetupStep(j)
    \/ \E j \in DOMAIN rn : Goto(j)
    \/ \E j \in DOMAIN rn : Fill(j)
    \/ \E j \in DOMAIN rn : Download(j)
    \/ \E j \in DOMAIN rn : Operate(j)
    \/ \E j \in DOMAIN rn : Detect(j)
    \/ \E j \in DOMAIN rn : AbortOnSiteError(j)
    \/ \E j \in DOMAIN rn : HandleException(j)

SpecRun == InitRun /\ [][NextRun]_vars

\* every awaited browser operation returns or times out, and the event loop
\* then resumes the coroutine: a run that can take a step takes one
SpecRunFair == InitRun /\ [][NextRun]_vars /\ WF_vars(NextRun)

(***************************************************************************)
(* Properties of the runner                                                *)
(***************************************************************************)

\* a step of the run failed: an operation raised, other than a navigation
\* attempt that a later attempt made good
StepFailed(r) ==
    \E k \in DOMAIN r.log :
        /\ r.log[k].out = "raise"
        /\ r.log[k].op = "goto" => r.i = GOTO_TRIES

\* C7: no exception escapes run_rtw_check_and_download_pdf; a failure at any
\* step, the browser launch, context creation, tracing start and page
\* creation included, gives a structured result with ok = false and an error
\* message.
C7_NoExceptionEscapes ==
    \A j \in DOMAIN rn :
        /\ rn[j].phase # "escaped"
        /\ (rn[j].phase = "returned" /\ StepFailed(rn[j]))
              => (rn[j].result.ok = FALSE /\ rn[j].result.error # NoError)

\* the operations that only write a diagnostic artifact
DiagnosticOps == {"tracing_stop", "screenshot", "error_pdf"}

OnlyDiagnosticsRaised(r) ==
    \A k \in DOMAIN r.log :
        r.log[k].out = "raise" => r.log[k].op \in DiagnosticOps

\* C8: a failure to write a diagnostic artifact never changes the primary
\* outcome: a run that saved the result PDF returns ok = true with its path,
\* and a run that detected a site-reported error returns that typed message,
\* even when the trace cannot be written.
C8_DiagnosticsNeverMask ==
    \A j \in DOMAIN rn :
        (rn[j].phase = "returned" /\ OnlyDiagnosticsRaised(rn[j])) =>
            /\ "pdf" \in rn[j].files =>
                  /\ rn[j].result.ok = TRUE
                  /\ rn[j].result.pdf_path = PathOf("pdf", rn[j].tag)
            /\ rn[j].err # NoError =>
                  /\ rn[j].result.ok = FALSE
                  /\ rn[j].result.error = rn[j].err

\* the log entries after the last detect
AfterDetect(r) ==
    LET last == CHOOSE k \in DOMAIN r.log :
                    /\ r.log[k].op = "detect"
                    /\ \A h \in DOMAIN r.log : h > k => r.log[h].op # "detect"
    IN  SubSeq(r.log, last + 1, Len(r.log))

FormOps ==
    {"fill_share_code", "fill_dob", "fill_company", "click_continue",
     "click_download", "save_as"}

AbortsAtOnce(r) ==
    /\ \A k \in DOMAIN AfterDetect(r) : AfterDetect(r)[k].op \notin FormOps
    /\ AfterDetect(r) # <<>> => AfterDetect(r)[1].op = "error_pdf"
    /\ r.phase = "returned" => AfterDetect(r) # <<>>

\* C9: once _detect_rtw_error_message reports an error the run aborts: no
\* later field is filled, no Continue is clicked, no download is attempted,
\* a PDF snapshot of the error page is attempted, and the result has
\* ok = false with the detected typed message.
C9_SiteErrorAbortsTyped ==
    \A j \in DOMAIN rn :
        rn[j].err # NoError =>
            /\ AbortsAtOnce(rn[j])
            /\ rn[j].phase = "returned" =>
                  /\ rn[j].result.ok = FALSE
                  /\ rn[j].result.error = rn[j].err

\* C10 (as stated): an error message is returned only when the page holds a
\* known failure phrase and the .govuk-error-summary element is present.
C10_ErrorOnlyWithSummaryElement ==
    \A j \in DOMAIN rn :
        rn[j].err # NoError =>
            /\ rn[j].page.phrases # {}
            /\ rn[j].page.summary = "present"

\* the page shows an error signal: the error-summary element, or a text that
\* contains "govuk-error-summary" or "there is a problem"
ErrorSignal(page) ==
    \/ page.summary = "present"
    \/ page.class_text
    \/ "there is a problem" \in page.phrases

\* C10 (amended): an error message is returned exactly when the page holds a
\* known failure phrase and shows an error signal (the .govuk-error-summary
\* element, or a text containing "govuk-error-summary" or "there is a
\* problem"); it is then the message of the first needle the text holds.  A
\* page with a failure phrase and none of these signals yields no error.
C10_ErrorOnlyWithErrorSignal ==
    \A j \in DOMAIN rn :
        /\ rn[j].err # NoError <=>
              (rn[j].page.phrases # {} /\ ErrorSignal(rn[j].page))
        /\ rn[j].err # NoError =>
              \E k \in DOMAIN needles :
                  /\ needles[k].n \in rn[j].page.phrases
                  /\ needles[k].msg = rn[j].err
                  /\ \A h \in 1..(k - 1) : needles[h].n \notin rn[j].page.phrases

C10_Witness ==
    \E j \in DOMAIN rn :
        /\ rn[j].page.phrases = {"expired"}
        /\ rn[j].page.summary = "absent"
        /\ rn[j].page.class_text
        /\ rn[j].err = "Share code appears to be expired."

\* the page actions of a run, in the order the description gives them
PAGE_ORDER ==
    <<"goto", "click_start", "fill_share_code", "click_continue",
      "fill_dob", "click_continue", "fill_company", "click_continue",
      "click_download", "save_as">>

IsPageStep(e) == e.op \in Range(PAGE_ORDER)

\* the page actions a run attempted, in the order it attempted them
PageSteps(r) == SelectSeq(r.log, IsPageStep)

OkBefore(P, k) == Cardinality({h \in 1..(k - 1) : P[h].out = "ok"})

\* the positions of the log where the error banner was looked for
DetectsAt(r) == {k \in DOMAIN r.log : r.log[k].op = "detect"}

\* C11: the page actions are performed in the fixed order navigate, start,
\* fill share code, continue, fill DOB, continue, fill company, continue,
\* click download, save: every action attempted is the one that follows the
\* actions completed so far, nothing is attempted after an action other
\* than a retried navigation failed, and the file is saved only after the
\* three forms were submitted and no error was detected after any of them.
C11_FixedOrder ==
    \A j \in DOMAIN rn :
        LET r == rn[j]
            P == PageSteps(r)
        IN  /\ \A k \in DOMAIN P :
                  /\ OkBefore(P, k) < Len(PAGE_ORDER)
                  /\ P[k].op = PAGE_ORDER[OkBefore(P, k) + 1]
                  /\ (P[k].out # "ok" /\ P[k].op # "goto") => k = Len(P)
            /\ "pdf" \in r.files =>
                  /\ Cardinality(DetectsAt(r)) = 3
                  /\ \A k \in DetectsAt(r) :
                        /\ r.log[k].out = NoError
                        /\ k > 1 /\ r.log[k - 1] = [op |-> "click_continue",
                                                   out |-> "ok"]
                        /\ \E h \in DOMAIN r.log :
                              h > k /\ r.log[h].op = "save_as"

C11_Witness ==
    \E j \in DOMAIN rn :
        /\ rn[j].phase = "returned"
        /\ rn[j].result.ok = TRUE
        /\ "pdf" \in rn[j].files
        /\ Len(PageSteps(rn[j])) = Len(PAGE_ORDER)

\* the navigation attempts of a run
GotoAttempts(r) == {k \in DOMAIN r.log : r.log[k].op = "goto"}

FailedGotos(r) == {k \in GotoAttempts(r) : r.log[k].out # "ok"}

\* the backoff after failed attempt i, i = 0, 1, 2
Backoff(i) == 900 + 700 * i

\* the attempts, the stop at the first success and the backoffs of
\* _goto_with_retry
RetriesWithBackoff(r) ==
    /\ Cardinality(GotoAttempts(r)) <= 3
    /\ \A k \in GotoAttempts(r) :
          r.log[k].out = "ok" => \A h \in GotoAttempts(r) : h <= k
    /\ Len(r.waits) <= Cardinality(FailedGotos(r))
    /\ \A n \in DOMAIN r.waits : r.waits[n] = Backoff(n - 1)

\* the run left _goto_with_retry by an exception
GotoFatal(r) ==
    /\ r.phase \in {"handler", "returned"}
    /\ \A k \in DOMAIN PageSteps(r) : PageSteps(r)[k].op = "goto"
    /\ \A k \in GotoAttempts(r) : r.log[k].out # "ok"

\* C12 (as stated): _goto_with_retry attempts the navigation at most 3
\* times, stops at the first attempt that succeeds, waits 900 + 700*i ms
\* after failed attempt i, and raises only after all 3 attempts failed.
C12_FatalOnlyAfterThreeAttempts ==
    \A j \in DOMAIN rn :
        /\ RetriesWithBackoff(rn[j])
        /\ GotoFatal(rn[j]) => Cardinality(FailedGotos(rn[j])) = 3

\* C12 (amended): at most 3 attempts, a stop at the first success, a wait of
\* 900 + 700*i ms after failed attempt i, and the "Failed to load" error
\* only after 3 failed attempts each followed by its wait; the only other
\* exception that leaves _goto_with_retry is that of the backoff wait
\* itself, which ends the navigation at once.
C12_FailedToLoadOnlyAfterThreeAttempts ==
    \A j \in DOMAIN rn :
        LET r == rn[j]
        IN  /\ RetriesWithBackoff(r)
            /\ GotoFatal(r) =>
                  \/ /\ r.e = ExceptionText("goto")
                     /\ Cardinality(FailedGotos(r)) = 3
                     /\ r.waits = <<Backoff(0), Backoff(1), Backoff(2)>>
                  \/ /\ r.e = ExceptionText("wait")
                     /\ r.log[Len(r.waits) + Len(SetupOps) + 2]
                           = [op |-> "wait", out |-> "raise"]
                     /\ Cardinality(FailedGotos(r)) = Len(r.waits) + 1

C12_Witness ==
    \E j \in DOMAIN rn :
        /\ GotoFatal(rn[j])
        /\ rn[j].e = ExceptionText("goto")
        /\ rn[j].waits = <<900, 1600, 2300>>

\* the order in which the selection strategies of a form field are stated
STRATEGY_ORDER == <<"label", "pattern", "positional">>

\* the helper that just ran tried the strategies in the order `order`, stopped
\* at the first one that filled the field, and raised when none did
TriedInOrder(f, order) ==
    /\ Len(f.tried) \in 1..Len(order)
    /\ \A n \in DOMAIN f.tried : f.tried[n] = order[n]
    /\ \A n \in 1..(Len(f.tried) - 1) : f.form[f.tried[n]] # "filled"
    /\ f.out = "ok" <=> f.form[f.tried[Len(f.tried)]] = "filled"
    /\ f.out = "raise" => Len(f.tried) = Len(order)

\* a failed fill is fatal: the handler takes over, the run returns ok = false
\* and Continue is not clicked for that page
FillFailureFatal(r) ==
    /\ r.fill.out = "raise" => r.phase = "handler"
    /\ \A k \in DOMAIN r.log :
          r.log[k].op \in FillOps /\ r.log[k].out = "raise" =>
             /\ k < Len(r.log) => r.log[k + 1].op # "click_continue"
             /\ r.phase # "returned" \/ r.result.ok = FALSE
             /\ r.phase \in {"handler", "returned"}

\* C24: for each of the three form fields the strategies are tried in the
\* order accessible label, id/name patterns, positional fallback; trying stops
\* at the first strategy that fills the field; when every strategy fails the
\* fill step raises, the run ends with ok = false and Continue is not clicked
\* for that page
C24_LabelPatternPositional ==
    \A j \in DOMAIN rn :
        /\ rn[j].fill.op # "" => TriedInOrder(rn[j].fill, STRATEGY_ORDER)
        /\ FillFailureFatal(rn[j])

\* the same with the order each helper's code states
C24_HelperOrder ==
    \A j \in DOMAIN rn :
        /\ rn[j].fill.op # "" => TriedInOrder(rn[j].fill, Strategies(rn[j].fill.op))
        /\ FillFailureFatal(rn[j])

\* the share code field is filled and the accessible label was never tried
C24_ShareCodeFilledWithoutLabel ==
    \E j \in DOMAIN rn :
        /\ rn[j].fill.op = "fill_share_code" /\ rn[j].fill.out = "ok"
        /\ \A n \in DOMAIN rn[j].fill.tried : rn[j].fill.tried[n] # "label"

\* the operation op is in the log of the run with outcome out
Did(r, op, out) == \E k \in DOMAIN r.log : r.log[k] = [op |-> op, out |-> out]

\* C29: run_rtw_check_and_download_pdf returns ok = true only if the download
\* started and the file was saved to the RTW-Check PDF path that the result
\* reports; a run in which no download link could be clicked or no download
\* started returns ok = false.
C29_OkOnlyIfDownloadSaved ==
    \A j \in DOMAIN rn :
        LET r == rn[j]
        IN  r.phase = "returned" =>
               /\ r.result.ok =>
                     /\ r.download
                     /\ Did(r, "click_download", "ok")
                     /\ Did(r, "save_as", "ok")
                     /\ "pdf" \in r.files
                     /\ r.result.pdf_path = PathOf("pdf", r.tag)
               /\ (~r.download \/ Did(r, "click_download", "raise"))
                     => r.result.ok = FALSE

\* a run that downloaded and saved the PDF and returned ok = true
C29_Witness ==
    \E j \in DOMAIN rn :
        /\ rn[j].phase = "returned" /\ rn[j].result.ok
        /\ rn[j].download /\ "pdf" \in rn[j].files
        /\ rn[j].result.pdf_path = <<"RTW-Check-", rn[j].tag, ".pdf">>

\* a run that reached the download page, started no download and returned
\* ok = false
C29_NoDownload ==
    \E j \in DOMAIN rn :
        /\ rn[j].phase = "returned" /\ ~rn[j].result.ok
        /\ Did(rn[j], "click_download", "raise")
        /\ rn[j].result.error = "Download PDF link not clickable"

\* the run attempted op, whatever came of it
Attempted(r, op) == \E k \in DOMAIN r.log : r.log[k].op = op

\* C32: on every path by which run_rtw_check_and_download_pdf returns a
\* result (success, site-reported error after any of the three pages,
\* exception at any step of the try block), closing the browser context and
\* then the browser has been attempted before the return.
C32_SessionClosedBeforeReturn ==
    \A j \in DOMAIN rn :
        rn[j].phase = "returned" =>
            \E a, b \in DOMAIN rn[j].log :
                /\ a < b
                /\ rn[j].log[a].op = "context_close"
                /\ rn[j].log[b].op = "browser_close"

\* a run that failed while filling the DOB page and returned ok = false
\* after its handler tried to close the context, which failed, and the
\* browser
C32_Witness ==
    \E j \in DOMAIN rn :
        /\ rn[j].phase = "returned" /\ ~rn[j].result.ok
        /\ Did(rn[j], "fill_dob", "raise")
        /\ Did(rn[j], "context_close", "failed")
        /\ Attempted(rn[j], "browser_close")

\* C25: every run of run_rtw_check_and_download_pdf eventually returns a
\* result: no run waits forever
C25_EveryRunReturns == <>(\A j \in DOMAIN rn : rn[j].result.returned)

\* every run eventually ends, by returning a result or by an exception that
\* leaves the coroutine
C25_EveryRunEnds ==
    <>(\A j \in DOMAIN rn : rn[j].phase \in {"returned", "escaped"})

(***************************************************************************)
(* Runs that share an output directory (rtw_runner.py, lines 11-12 and     *)
(* 233-240)                                                                *)
(*                                                                         *)
(* od.now is the wall clock, in half seconds; od.runs[j] is run j: its     *)
(* tag, the artifacts it wrote and the paths it returned; od.files is the  *)
(* directory: the paths that exist, each with the run that wrote it last.  *)
(***************************************************************************)

\* the seconds the clock goes through
MaxSeconds == 1

\* the two runs that use the directory
RunIds == {1, 2}

\* time passes by half a second
Later(t) ==
    IF t.half = 0 THEN [t EXCEPT !.half = 1]
    ELSE [sec |-> t.sec + 1, half |-> 0]

\* _tag: time.strftime("%Y%m%d-%H%M%S"), whose last field is the whole second
_tag(t) == <<"20261104-1615", FmtInt(t.sec, 2)>>

ArtifactKinds == {"trace", "error_png", "error_pdf", "pdf"}

IdleRun == [phase |-> "idle", tag |-> <<>>, wrote |-> {}, result |-> {}]

\* lines 233-240: the tag is taken once, when the run starts
BeginRun(t) == [IdleRun EXCEPT !.phase = "running", !.tag = _tag(t)]

\* a write to path by run j replaces what was there
WriteFile(files, path, j) ==
    {f \in files : f.path # path} \cup {[path |-> path, by |-> j]}

Exists(files, path) == \E f \in files : f.path = path

\* the paths a result names: those of the artifacts the run wrote, and
\* error_pdf whenever error_pdf.exists() (lines 409 and 439)
ResultPaths(r, files) ==
    {PathOf(k, r.tag) : k \in r.wrote}
    \cup {PathOf(k, r.tag) : k \in {x \in {"error_pdf"} :
                                       Exists(files, PathOf(x, r.tag))}}

Tick ==
    /\ od.now.sec < MaxSeconds
    /\ od' = [od EXCEPT !.now = Later(@)]
    /\ UNCHANGED <<ex, rn, rq, tx, GEMINI_CLIENT>>

Begin(j) ==
    /\ od.runs[j].phase = "idle"
    /\ od' = [od EXCEPT !.runs[j] = BeginRun(od.now)]
    /\ UNCHANGED <<ex, rn, rq, tx, GEMINI_CLIENT>>

WriteArtifact(j) ==
    /\ od.runs[j].phase = "running"
    /\ \E k \in ArtifactKinds \ od.runs[j].wrote :
          od' = [od EXCEPT
                   !.runs[j].wrote = @ \cup {k},
                   !.files = WriteFile(@, PathOf(k, od.runs[j].tag), j)]
    /\ UNCHANGED <<ex, rn, rq, tx, GEMINI_CLIENT>>

ReturnPaths(j) ==
    /\ od.runs[j].phase = "running"
    /\ od' = [od EXCEPT
                !.runs[j].phase = "returned",
                !.runs[j].result = ResultPaths(od.runs[j], od.files)]
    /\ UNCHANGED <<ex, rn, rq, tx, GEMINI_CLIENT>>

InitDir ==
    /\ GEMINI_CLIENT = "None"
    /\ ex = <<>> /\ rn = <<>> /\ rq = <<>> /\ tx = <<>>
    /\ od = [NoDir EXCEPT !.runs = [j \in RunIds |-> IdleRun]]

NextDir ==
    \/ Tick
    \/ \E j \in DOMAIN od.runs : Begin(j)
    \/ \E j \in DOMAIN od.runs : WriteArtifact(j)
    \/ \E j \in DOMAIN od.runs : ReturnPaths(j)

SpecDir == InitDir /\ [][NextDir]_vars

\* the artifact paths of run j
PathsOfRun(j) == {PathOf(k, od.runs[j].tag) : k \in ArtifactKinds}

\* the runs j and k started in different seconds
DifferentSeconds(j, k) == od.runs[j].tag # od.runs[k].tag

\* C31: two runs that execute concurrently with the same output directory
\* never write to the same artifact path: the trace, screenshot, error-PDF
\* and result-PDF names of one are distinct from those of the other, so a
\* run cannot overwrite or return the other's files.
C31_DistinctArtifactPaths ==
    \A j, k \in DOMAIN od.runs :
        (j # k /\ od.runs[j].phase # "idle" /\ od.runs[k].phase # "idle") =>
            /\ PathsOfRun(j) \cap PathsOfRun(k) = {}
            /\ \A f \in od.files : f.path \in od.runs[j].result => f.by # k

\* runs that started in different seconds have distinct paths
C31_DistinctWhenSecondsDiffer ==
    \A j, k \in DOMAIN od.runs :
        (j # k /\ od.runs[j].phase # "idle" /\ od.runs[k].phase # "idle"
         /\ DifferentSeconds(j, k)) =>
            /\ PathsOfRun(j) \cap PathsOfRun(k) = {}
            /\ \A f \in od.files : f.path \in od.runs[j].result => f.by # k

\* a run returned as its result PDF a file that the other run wrote
C31_ReturnsOthersFile ==
    \E j, k \in DOMAIN od.runs :
        /\ j # k /\ od.runs[j].phase = "returned"
        /\ "pdf" \in od.runs[j].wrote
        /\ [path |-> PathOf("pdf", od.runs[j].tag), by |-> k] \in od.files

(***************************************************************************)
(* The /rtw/run handler (app.py)                                           *)
(*                                                                         *)
(* A payload carries, under each key, a string or nothing (NoneStr).  The  *)
(* runner itself never inspects share_code, dob_day, dob_month, dob_year   *)
(* or company_name: lines 242-246 of rtw_runner.py strip and zero-pad them *)
(* and the browser is launched at line 249, so a run does not depend on    *)
(* them.                                                                   *)
(***************************************************************************)

Whitespace == {" "}

\* str.strip()
RECURSIVE Strip(_)
Strip(s) ==
    IF s = <<>> THEN s
    ELSE IF Head(s) \in Whitespace THEN Strip(Tail(s))
    ELSE IF s[Len(s)] \in Whitespace THEN Strip(SubSeq(s, 1, Len(s) - 1))
    ELSE s

\* app.py's own _normalize_share_code: (s or "").upper(), then the re.sub
_normalize_share_code(s) == StripNonAlnum(Upper(OrElse(s, <<>>)))

\* (payload.get(key) or "").strip()
Field(v) == Strip(OrElse(v, <<>>))

NoResponse == [status |-> "none", detail |-> ""]

NoRunnerResult == [kind |-> "none"]

BAD_SHARE_CODE ==
    "Share code must be 9 characters (letters/numbers), spaces optional."

MISSING_FIELDS == "Company name and full DOB (day/month/year) are required."

NewRequest(payload) ==
    [pc |-> "received", payload |-> payload,
     company_name |-> <<>>, share_code |-> <<>>,
     dob_day |-> <<>>, dob_month |-> <<>>, dob_year |-> <<>>,
     raw_sc |-> <<>>, runner_calls |-> 0,
     result |-> NoRunnerResult, response |-> NoResponse]

\* lines 409-415
ReadFields(q) ==
    [q EXCEPT
       !.pc = "parsed",
       !.company_name = Strip(OrElse(OrElse(q.payload.company_name,
                                            q.payload.company), <<>>)),
       !.share_code = Field(q.payload.share_code),
       !.dob_day = Field(q.payload.dob_day),
       !.dob_month = Field(q.payload.dob_month),
       !.dob_year = Field(q.payload.dob_year),
       !.raw_sc = _normalize_share_code(Field(q.payload.share_code))]

HttpError(q, status, detail) ==
    [q EXCEPT !.pc = "done",
              !.response = [status |-> status, detail |-> detail]]

\* lines 416-421: the two checks rtw_run makes
Validation(q) ==
    IF Len(q.raw_sc) # SHARE_CODE_LEN
    THEN HttpError(q, "400", BAD_SHARE_CODE)
    ELSE IF ~(/\ TruthyStr(q.company_name) /\ TruthyStr(q.dob_day)
              /\ TruthyStr(q.dob_month) /\ TruthyStr(q.dob_year))
         THEN HttpError(q, "400", MISSING_FIELDS)
         ELSE [q EXCEPT !.pc = "validated"]

\* lines 423-424: an exception of os.makedirs is answered with a 500
OutDir(q, out) ==
    IF out = "raise" THEN HttpError(q, "500", "Internal Server Error")
    ELSE [q EXCEPT !.pc = "ready"]

\* lines 425-434: the worker thread calls the lambda (runner_calls counts
\* these calls), whose argument Path(out_dir) is evaluated before
\* run_rtw_check_and_download_pdf is called; app.py imports no Path (lines
\* 1-21 and 394), so the evaluation raises NameError, run_sync re-raises it in
\* rtw_run and the framework answers 500: the runner never starts
RunSync(q) ==
    HttpError([q EXCEPT !.runner_calls = @ + 1,
                        !.result = [kind |-> "NameError"]],
              "500", "Internal Server Error")

\* lines 436-444, for the dict q.result of a runner that returned
MapResult(q, pdf_exists) ==
    IF ~q.result.ok
    THEN HttpError(q, "500",
                   IF q.result.error # "" THEN q.result.error
                   ELSE "RTW runner failed.")
    ELSE IF q.result.pdf_path = <<>> \/ ~pdf_exists
         THEN HttpError(q, "500",
                        "Runner succeeded but PDF was not found on disk.")
    ELSE [q EXCEPT !.pc = "done",
                   !.response = [status |-> "200", detail |-> "pdf"]]

(***************************************************************************)
(* Requests and actions of the handler                                     *)
(***************************************************************************)

Acme == <<"A","c","m","e">>

RequestPayloads ==
    {[company_name |-> cn, company |-> co, share_code |-> sc,
      dob_day |-> dd, dob_month |-> mm, dob_year |-> yyyy] :
        cn \in {NoneStr, Acme},
        co \in {NoneStr, Acme},
        sc \in {CodeA, ScSpaced, ScShort, NoneStr},
        dd \in {<<"0","7">>, <<" ","7"," ">>, <<"9","9">>, <<"a","b">>,
                NoneStr},
        mm \in {<<"0","6">>, <<"1","3">>},
        yyyy \in {<<"1","9","7","8">>, <<"0","0","0","0">>}}

ReadPayload(i) ==
    /\ rq[i].pc = "received"
    /\ rq' = [rq EXCEPT ![i] = ReadFields(@)]
    /\ UNCHANGED <<ex, rn, tx, GEMINI_CLIENT, od>>

Validate(i) ==
    /\ rq[i].pc = "parsed"
    /\ rq' = [rq EXCEPT ![i] = Validation(@)]
    /\ UNCHANGED <<ex, rn, tx, GEMINI_CLIENT, od>>

MakeOutDir(i) ==
    /\ rq[i].pc = "validated"
    /\ \E out \in {"ok", "raise"} : rq' = [rq EXCEPT ![i] = OutDir(@, out)]
    /\ UNCHANGED <<ex, rn, tx, GEMINI_CLIENT, od>>

CallRunner(i) ==
    /\ rq[i].pc = "ready"
    /\ rq' = [rq EXCEPT ![i] = RunSync(@)]
    /\ UNCHANGED <<ex, rn, tx, GEMINI_CLIENT, od>>

InitApp ==
    /\ GEMINI_CLIENT = "None"
    /\ ex = <<>>
    /\ rn = <<>>
    /\ \E payload \in RequestPayloads : rq = <<NewRequest(payload)>>
    /\ tx = <<>>
    /\ od = NoDir

NextApp ==
    \/ \E i \in DOMAIN rq : ReadPayload(i)
    \/ \E i \in DOMAIN rq : Validate(i)
    \/ \E i \in DOMAIN rq : MakeOutDir(i)
    \/ \E i \in DOMAIN rq : CallRunner(i)

SpecApp == InitApp /\ [][NextApp]_vars

(***************************************************************************)
(* Properties of the handler                                               *)
(***************************************************************************)

\* a share code that does not normalise to 9 characters over [A-Z0-9]
MalformedShareCode(payload) ==
    normalize_share_code(Field(payload.share_code)) = NoneStr

\* a day, month or year that is not a number or is out of range
MalformedDob(payload) ==
    \/ ~InRange(Field(payload.dob_day), 1, 31)
    \/ ~InRange(Field(payload.dob_month), 1, 12)
    \/ ~InRange(Field(payload.dob_year), 1900, 2100)

\* C13: a request with a malformed share code or a malformed DOB is
\* rejected with a validation error before the runner, and with it the
\* browser, is started.
C13_MalformedRejectedBeforeBrowser ==
    \A i \in DOMAIN rq :
        (MalformedShareCode(rq[i].payload) \/ MalformedDob(rq[i].payload)) =>
            /\ rq[i].runner_calls = 0
            /\ \/ rq[i].pc \in {"received", "parsed"}
               \/ rq[i].pc = "done" /\ rq[i].response.status = "400"

\* the dicts run_rtw_check_and_download_pdf returns (rtw_runner.py, lines
\* 405-411 and 435-441), as far as rtw_run reads them
RunnerResults ==
    {[kind |-> "returned", ok |-> TRUE, error |-> "",
      pdf_path |-> <<"RTW-Check-", "20261104-161500", ".pdf">>],
     [kind |-> "returned", ok |-> FALSE,
      error |-> "Share code input not found", pdf_path |-> <<>>]}

\* the responses that map a result of the runner
MappedResponses(q) ==
    {MapResult([q EXCEPT !.result = res], TRUE).response : res \in RunnerResults}

\* C33: for a request that passes validation, rtw_run runs the automation
\* runner to completion and maps its result: the PDF file when the runner
\* returned ok = true and the PDF exists, an HTTP 500 whose detail is the
\* runner's error message when it returned ok = false.
C33_RunnerResultMapped ==
    \A i \in DOMAIN rq :
        (rq[i].pc = "done" /\ rq[i].runner_calls > 0) =>
            /\ rq[i].result.kind = "returned"
            /\ rq[i].response \in MappedResponses(rq[i])

\* a request with a valid share code, a full DOB and a company name is
\* answered 500 without a runner result
C33_ValidRequestAnswered500 ==
    \E i \in DOMAIN rq :
        /\ rq[i].pc = "done" /\ rq[i].runner_calls = 1
        /\ rq[i].result.kind = "NameError"
        /\ rq[i].response = [status |-> "500", detail |-> "Internal Server Error"]

====
